---- MODULE Spec2Model ----
(***************************************************************************)
(* Model of thermd's graph-based iterative solver                          *)
(* (thermd/core.py: BaseSystemClass, SystemSimpleIterative, PortState,     *)
(* PortSignal) together with the components the solver is run on           *)
(* (thermd/fluid/sources.py PumpSimple, thermd/fluid/sensors.py SensorP,   *)
(* thermd/blocks/math.py Addition, thermd/blocks/sources.py Constant).     *)
(*                                                                         *)
(* Numbers are fixed-point integers in units of 0.001, so the default      *)
(* tolerances 1.0 and 0.001 are 1000 and 1.  Python objects (State and     *)
(* Signal payloads) live in a heap of object ids: a port holds a           *)
(* reference, copy() allocates a new object, a setter on the object        *)
(* mutates it in place.  An object nothing refers to is freed.             *)
(***************************************************************************)
EXTENDS Integers, Sequences, FiniteSets, TLC

\* ------------------------------------------------------------------ bounds
\* max_iteration_counter is drawn from 0..MaxM
MaxM == 3
\* number of solve() calls made on one system instance
MaxSolves == 2
\* number of exceptions raised by components / backend in one behaviour
MaxFaults == 2
\* number of direct writes the user makes to a payload object
MaxUserWrites == 1
\* number of add_model / add_block / connect calls made while a system is set up
MaxSetupCalls == 4
\* number of equation() calls made on one unit between two writes to its inlets
MaxEqCalls == 3

\* --------------------------------------------------------- program constants
StopCriterionEnergyDefault == 1000
StopCriterionMomentumDefault == 1000
StopCriterionMassDefault == 1
StopCriterionSignalDefault == 1
MaxIterationCounterDefault == 1000
Uint16Modulus == 65536

\* np.uint16 arithmetic: the counter wraps modulo 2^16
Uint16(x) == x % Uint16Modulus

\* ------------------------------------------------------------ value types
\* A heap object is a State (p, s define it, m_flow is the mutable mass flow)
\* or a Signal (value).  One record shape serves both.
StateVal(p, s, m) == [kind |-> "state", p |-> p, s |-> s, m_flow |-> m, value |-> 0]
SignalVal(v) == [kind |-> "signal", p |-> 0, s |-> 0, m_flow |-> 0, value |-> v]

\* The property backend as an oracle: hmass from (p, s), and s from (p, h).
BackendHmass(p, s) == s + p
BackendSmass(p, h) == h - p

hmass(st) == BackendHmass(st.p, st.s)

\* MediumCoolProp.from_ph: a new state object defined by (p, h)
from_ph(p, h, m) == StateVal(p, BackendSmass(p, h), m)

\* MediumCoolProp.set_ps on an existing object: p and s re-based, m_flow kept
set_ps(st, p, s) == StateVal(p, s, st.m_flow)

\* MediumCoolProp.copy and SignalFloat.copy: the value of the new object
MediumCoolProp_copy(st) == from_ph(st.p, hmass(st), st.m_flow)
SignalFloat_copy(sg) == SignalVal(sg.value)

payload_copy(v) == IF v.kind = "state" THEN MediumCoolProp_copy(v) ELSE SignalFloat_copy(v)

\* ------------------------------------------------------------------- heap
\* mem = [heap |-> id -> value, portObj |-> unit -> port name -> id]
NewId(heap) == CHOOSE i \in 1..(Cardinality(DOMAIN heap) + 1) :
                  /\ i \notin DOMAIN heap
                  /\ \A j \in 1..(i - 1) : j \in DOMAIN heap

HeapPut(heap, id, v) == [i \in (DOMAIN heap) \cup {id} |-> IF i = id THEN v ELSE heap[i]]

\* Memory: the heap and, per constructed unit, the object each port holds.
EmptyMem == [heap |-> << >>, portObj |-> << >>]

PortValue(mem, u, pn) == mem.heap[mem.portObj[u][pn]]

SetPortObj(portObj, u, pn, id) ==
    [x \in (DOMAIN portObj) \cup {u} |->
        IF x = u
        THEN LET old == IF u \in DOMAIN portObj THEN portObj[u] ELSE << >>
             IN [q \in (DOMAIN old) \cup {pn} |-> IF q = pn THEN id ELSE old[q]]
        ELSE portObj[x]]

\* PortState.__init__ / PortSignal.__init__: self._state = state.copy()
PortState_init(mem, u, pn, src) ==
    LET id == NewId(mem.heap)
    IN [heap |-> HeapPut(mem.heap, id, MediumCoolProp_copy(mem.heap[src])),
        portObj |-> SetPortObj(mem.portObj, u, pn, id)]

PortSignal_init(mem, u, pn, src) ==
    LET id == NewId(mem.heap)
    IN [heap |-> HeapPut(mem.heap, id, SignalFloat_copy(mem.heap[src])),
        portObj |-> SetPortObj(mem.portObj, u, pn, id)]

\* A state setter that stores the reference it is given instead of a copy
PortState_state_setter_by_reference(mem, u, pn, src) ==
    [heap |-> mem.heap, portObj |-> SetPortObj(mem.portObj, u, pn, src)]

\* PortState.state setter / PortSignal.signal setter: store a copy of the
\* object `src`; the object the port held before is no longer referenced by it.
PortState_state_setter(mem, u, pn, src) ==
    LET id == NewId(mem.heap)
    IN [heap |-> HeapPut(mem.heap, id, MediumCoolProp_copy(mem.heap[src])),
        portObj |-> SetPortObj(mem.portObj, u, pn, id)]

PortSignal_signal_setter(mem, u, pn, src) ==
    LET id == NewId(mem.heap)
    IN [heap |-> HeapPut(mem.heap, id, SignalFloat_copy(mem.heap[src])),
        portObj |-> SetPortObj(mem.portObj, u, pn, id)]

\* In-place mutation of the object a port holds (state.set_ps, state.m_flow = x,
\* signal.value = x): every holder of that object sees the change.
MutatePortObject(mem, u, pn, v) ==
    [mem EXCEPT !.heap = HeapPut(mem.heap, mem.portObj[u][pn], v)]

\* Objects referenced from `roots` survive; the rest is freed (CPython
\* reference counting).
Collect(heap, roots) == [i \in (DOMAIN heap) \cap roots |-> heap[i]]

PortRoots(portObj) == UNION {{portObj[u][pn] : pn \in DOMAIN portObj[u]} : u \in DOMAIN portObj}


\* ------------------------------------------------------- component catalogue
\* The unit objects a user script constructs.  "pump1_again" is a second
\* PumpSimple constructed with name="pump1", "const_pump1" a Constant
\* constructed with name="pump1", "pump_b" a PumpSimple constructed with
\* name="pump1_port_b", and "valve" an instance of a user-defined subclass of
\* BaseModelClass that adds a STATE_INLET and a STATE_INLET_OUTLET port.
\* "pump_u" and "const_u" are instances of user-defined subclasses of
\* PumpSimple and Constant that override check_self() only.
UnitIds == {"pump1", "pump2", "sensor", "add", "const", "const1", "source", "sink",
            "pump1_again", "const_pump1", "pump_b", "valve", "pump_u", "const_u"}

UnitClass(u) ==
    CASE u \in {"pump1", "pump2", "pump1_again", "pump_b", "pump_u"} -> "PumpSimple"
      [] u = "sensor" -> "SensorP"
      [] u = "add" -> "Addition"
      [] u \in {"const", "const1", "const_pump1", "const_u"} -> "Constant"
      [] u = "valve" -> "UserModel"
      [] u = "source" -> "SourceFixedState"
      [] u = "sink" -> "SinkFixedState"

\* node_class.name: the name argument the unit was constructed with
UnitName(u) ==
    CASE u \in {"pump1_again", "const_pump1"} -> "pump1"
      [] u = "pump_b" -> "pump1_port_b"
      [] OTHER -> u

\* BaseModelClass subclasses are added with add_model, BaseBlockClass ones
\* with add_block.
IsModelClass(c) ==
    c \in {"PumpSimple", "SensorP", "UserModel", "SourceFixedState", "SinkFixedState"}

PortNames ==
    [pump1 |-> [a |-> "pump1_port_a", b |-> "pump1_port_b"],
     pump2 |-> [a |-> "pump2_port_a", b |-> "pump2_port_b"],
     sensor |-> [a |-> "sensor_port_a", b |-> "sensor_port_b", d |-> "sensor_port_d"],
     add |-> [c1 |-> "add_port_c1", c2 |-> "add_port_c2", d |-> "add_port_d"],
     const |-> [d |-> "const_port_d"],
     const1 |-> [d |-> "const1_port_d"],
     source |-> [b |-> "source_port_b"],
     sink |-> [a |-> "sink_port_a"],
     pump1_again |-> [a |-> "pump1_port_a", b |-> "pump1_port_b"],
     const_pump1 |-> [d |-> "pump1_port_d"],
     pump_b |-> [a |-> "pump1_port_b_port_a", b |-> "pump1_port_b_port_b"],
     valve |-> [a |-> "valve_port_a", c |-> "valve_port_c"],
     pump_u |-> [a |-> "pump_u_port_a", b |-> "pump_u_port_b"],
     const_u |-> [d |-> "const_u_port_d"]]

\* The ports a class's __init__ adds with add_port, in that order:
\* <<attribute, port_type>>.
ClassPorts(c) ==
    CASE c = "PumpSimple" -> << <<"a", "STATE_INLET">>, <<"b", "STATE_OUTLET">> >>
      [] c = "SensorP" -> << <<"a", "STATE_INLET">>, <<"b", "STATE_OUTLET">>,
                             <<"d", "SIGNAL_OUTLET">> >>
      [] c = "Addition" -> << <<"c1", "SIGNAL_INLET">>, <<"c2", "SIGNAL_INLET">>,
                              <<"d", "SIGNAL_OUTLET">> >>
      [] c = "Constant" -> << <<"d", "SIGNAL_OUTLET">> >>
      [] c = "UserModel" -> << <<"a", "STATE_INLET">>, <<"c", "STATE_INLET_OUTLET">> >>
      [] c = "SourceFixedState" -> << <<"b", "STATE_OUTLET">> >>
      [] c = "SinkFixedState" -> << <<"a", "STATE_INLET">> >>

\* unit.ports: port names in insertion order, and each port's port_type
UnitPortSeq(u) ==
    LET cp == ClassPorts(UnitClass(u))
    IN [i \in 1..Len(cp) |-> PortNames[u][cp[i][1]]]

UnitPortType(u, pn) ==
    LET cp == ClassPorts(UnitClass(u))
        i == CHOOSE k \in 1..Len(cp) : PortNames[u][cp[k][1]] = pn
    IN cp[i][2]

UnitHasPort(u, pn) == \E i \in 1..Len(UnitPortSeq(u)) : UnitPortSeq(u)[i] = pn

IsStatePortType(t) == t \in {"STATE_INLET", "STATE_OUTLET", "STATE_INLET_OUTLET"}

\* PumpSimple's constructor argument dp
PumpDp(u) == IF u = "pump1" THEN 2000 ELSE 3000

\* Constant's constructor argument
ConstantValue(u) == IF u = "const1" THEN StopCriterionSignalDefault ELSE 5

\* What check_self() of a unit may return: True for every class of the
\* library, either value for a user's override
CheckSelfReturns(u) == IF u \in {"pump_u", "const_u"} THEN BOOLEAN ELSE {TRUE}

\* unit._last_*: the values recorded for the delta accessors
LastRec(h, m, sv) == [hmass |-> h, m_flow |-> m, signal_value |-> sv]

\* Constructors.  `arg` is the heap id of the user's state0 (models) or
\* signal0 (Addition: signal0_1 = signal0_2 = arg).  Result: the memory with
\* the unit's ports, and the unit's recorded last values.
PumpSimple_init(mem, u, state0) ==
    LET m1 == PortState_init(mem, u, PortNames[u].a, state0)
        m2 == PortState_init(m1, u, PortNames[u].b, state0)
    IN [mem |-> m2,
        last |-> LastRec(hmass(mem.heap[state0]), mem.heap[state0].m_flow, 0)]

SensorP_init(mem, u, state0) ==
    LET sig == NewId(mem.heap)
        m0 == [mem EXCEPT !.heap = HeapPut(mem.heap, sig, SignalVal(mem.heap[state0].p))]
        m1 == PortState_init(m0, u, PortNames[u].a, state0)
        m2 == PortState_init(m1, u, PortNames[u].b, state0)
        m3 == PortSignal_init(m2, u, PortNames[u].d, sig)
    IN [mem |-> m3,
        last |-> LastRec(hmass(mem.heap[state0]), mem.heap[state0].m_flow,
                         mem.heap[state0].p)]

Addition_init(mem, u, signal0) ==
    LET m1 == PortSignal_init(mem, u, PortNames[u].c1, signal0)
        m2 == PortSignal_init(m1, u, PortNames[u].c2, signal0)
        m3 == PortSignal_init(m2, u, PortNames[u].d, signal0)
    IN [mem |-> m3, last |-> LastRec(0, 0, mem.heap[signal0].value)]

Constant_init(mem, u, constant) ==
    LET sig == NewId(mem.heap)
        m0 == [mem EXCEPT !.heap = HeapPut(mem.heap, sig, SignalVal(constant))]
        m1 == PortSignal_init(m0, u, PortNames[u].d, sig)
    IN [mem |-> m1, last |-> LastRec(0, 0, constant)]

\* A user-defined model: add_port(PortState(...)) for each of its ports
UserModel_init(mem, u, state0) ==
    LET m1 == PortState_init(mem, u, PortNames[u].a, state0)
        m2 == PortState_init(m1, u, PortNames[u].c, state0)
    IN [mem |-> m2,
        last |-> LastRec(hmass(mem.heap[state0]), mem.heap[state0].m_flow, 0)]

\* BaseFluidOneOutlet.__init__ (SourceFixedState) and BaseFluidOneInlet.__init__
\* (SinkFixedState): one state port, the last values taken from state0
BaseFluidOneOutlet_init(mem, u, state0) ==
    [mem |-> PortState_init(mem, u, PortNames[u].b, state0),
     last |-> LastRec(hmass(mem.heap[state0]), mem.heap[state0].m_flow, 0)]

BaseFluidOneInlet_init(mem, u, state0) ==
    [mem |-> PortState_init(mem, u, PortNames[u].a, state0),
     last |-> LastRec(hmass(mem.heap[state0]), mem.heap[state0].m_flow, 0)]

Construct(mem, u, arg) ==
    CASE UnitClass(u) = "PumpSimple" -> PumpSimple_init(mem, u, arg)
      [] UnitClass(u) = "SourceFixedState" -> BaseFluidOneOutlet_init(mem, u, arg)
      [] UnitClass(u) = "SinkFixedState" -> BaseFluidOneInlet_init(mem, u, arg)
      [] UnitClass(u) = "UserModel" -> UserModel_init(mem, u, arg)
      [] UnitClass(u) = "SensorP" -> SensorP_init(mem, u, arg)
      [] UnitClass(u) = "Addition" -> Addition_init(mem, u, arg)
      [] UnitClass(u) = "Constant" -> Constant_init(mem, u, ConstantValue(u))

\* ------------------------------------------------------------ system graph
\* sys = [network, models, blocks, ports]; network is the networkx DiGraph:
\* nodes with their attributes, and per node its successors in insertion order.
NoAttr == [node_type |-> "none", node_class |-> "none"]

EmptyNetwork == [nodes |-> << >>, succ |-> << >>]

\* BaseSystemClass.__init__: empty index lists and an empty graph
EmptySys == [network |-> EmptyNetwork, models |-> << >>, blocks |-> << >>,
             ports |-> << >>]

InSeq(x, seq) == \E i \in 1..Len(seq) : seq[i] = x

FcnPut(f, k, v) == [x \in (DOMAIN f) \cup {k} |-> IF x = k THEN v ELSE f[x]]

\* nx.DiGraph.add_node(n, **attr): a new node gets attr, an existing node has
\* its attributes updated and keeps its edges.
nx_add_node(net, n, ntype, nclass) ==
    LET old == IF n \in DOMAIN net.nodes THEN net.nodes[n] ELSE NoAttr
        new == [node_type |-> IF ntype = "none" THEN old.node_type ELSE ntype,
                node_class |-> IF nclass = "none" THEN old.node_class ELSE nclass]
    IN [nodes |-> FcnPut(net.nodes, n, new),
        succ |-> IF n \in DOMAIN net.succ THEN net.succ ELSE FcnPut(net.succ, n, << >>)]

\* nx.DiGraph.add_edge(a, b): missing end points are added without attributes
nx_add_edge(net, a, b) ==
    LET n1 == nx_add_node(net, a, "none", "none")
        n2 == nx_add_node(n1, b, "none", "none")
    IN IF InSeq(b, n2.succ[a]) THEN n2
       ELSE [n2 EXCEPT !.succ = FcnPut(n2.succ, a, Append(n2.succ[a], b))]

nx_successors(net, n) == net.succ[n]

\* The loop over node_class.ports.values() of add_model / add_block, from the
\* i-th port on: each port becomes a PORT node with its containment edge; a
\* port of any other role raises SystemExit with the earlier ports left in.
RECURSIVE add_ports(_, _, _)
add_ports(sys, u, i) ==
    LET seq == UnitPortSeq(u)
    IN IF i > Len(seq) THEN [sys |-> sys, raised |-> FALSE]
       ELSE LET pn == seq[i]
                t == UnitPortType(u, pn)
                n1 == nx_add_node(sys.network, pn, "PORT", "none")
                s1 == [sys EXCEPT !.network = n1,
                                  !.ports = FcnPut(sys.ports, UnitName(u),
                                                   Append(sys.ports[UnitName(u)], pn))]
            IN IF t \in {"STATE_INLET", "SIGNAL_INLET"}
               THEN add_ports([s1 EXCEPT !.network = nx_add_edge(n1, pn, UnitName(u))],
                              u, i + 1)
               ELSE IF t \in {"STATE_OUTLET", "SIGNAL_OUTLET"}
               THEN add_ports([s1 EXCEPT !.network = nx_add_edge(n1, UnitName(u), pn)],
                              u, i + 1)
               ELSE [sys |-> s1, raised |-> TRUE]

\* An add_model without the test for a name already in use
add_model_no_duplicate_test(sys, u) ==
    add_ports([sys EXCEPT
                 !.network = nx_add_node(sys.network, UnitName(u), "MODEL", u),
                 !.models = Append(sys.models, UnitName(u)),
                 !.ports = FcnPut(sys.ports, UnitName(u), << >>)],
              u, 1)

\* BaseSystemClass.add_model
add_model(sys, u) ==
    IF InSeq(UnitName(u), sys.models)
    THEN [sys |-> sys, raised |-> TRUE]
    ELSE add_ports([sys EXCEPT
                      !.network = nx_add_node(sys.network, UnitName(u), "MODEL", u),
                      !.models = Append(sys.models, UnitName(u)),
                      !.ports = FcnPut(sys.ports, UnitName(u), << >>)],
                   u, 1)

\* BaseSystemClass.add_block
add_block(sys, u) ==
    IF InSeq(UnitName(u), sys.blocks)
    THEN [sys |-> sys, raised |-> TRUE]
    ELSE add_ports([sys EXCEPT
                      !.network = nx_add_node(sys.network, UnitName(u), "BLOCK", u),
                      !.blocks = Append(sys.blocks, UnitName(u)),
                      !.ports = FcnPut(sys.ports, UnitName(u), << >>)],
                   u, 1)

\* A connect that tests the payload kinds only, not the roles
connect_any_direction(sys, port1, port2) ==
    LET t1 == UnitPortType(port1[1], port1[2])
        t2 == UnitPortType(port2[1], port2[2])
    IN IF IsStatePortType(t1) = IsStatePortType(t2)
       THEN [sys |-> [sys EXCEPT !.network = nx_add_edge(sys.network, port1[2], port2[2])],
             raised |-> FALSE]
       ELSE [sys |-> sys, raised |-> TRUE]

\* BaseSystemClass.connect(port1, port2), the ports given as <<unit, port name>>
connect(sys, port1, port2) ==
    LET t1 == UnitPortType(port1[1], port1[2])
        t2 == UnitPortType(port2[1], port2[2])
    IN IF IsStatePortType(t1) = IsStatePortType(t2)
       THEN IF /\ t1 \in {"STATE_OUTLET", "STATE_INLET_OUTLET",
                          "SIGNAL_OUTLET", "SIGNAL_INLET_OUTLET"}
               /\ t2 \in {"STATE_INLET", "STATE_INLET_OUTLET",
                          "SIGNAL_INLET", "SIGNAL_INLET_OUTLET"}
            THEN [sys |-> [sys EXCEPT !.network = nx_add_edge(sys.network, port1[2], port2[2])],
                  raised |-> FALSE]
            ELSE [sys |-> sys, raised |-> TRUE]
       ELSE [sys |-> sys, raised |-> TRUE]

\* --------------------------------------------------------- user scripts
\* The State / Signal objects the user creates and hands to constructors.
UserValues ==
    [stateA |-> StateVal(100000, 500, 10),
     stateB |-> StateVal(200000, 700, 0),
     stateC |-> StateVal(300000, 900, -10),
     sig0 |-> SignalVal(0)]

StateNames == {"stateA", "stateB", "stateC"}

Call(op, u, p1, p2) == [op |-> op, u |-> u, p1 |-> p1, p2 |-> p2]
AddModel(u) == Call("add_model", u, << >>, << >>)
AddBlock(u) == Call("add_block", u, << >>, << >>)
Connect(u1, a1, u2, a2) ==
    Call("connect", "none", <<u1, PortNames[u1][a1]>>, <<u2, PortNames[u2][a2]>>)

\* A script: the units constructed (with the user object given to each) and
\* the add_model / add_block / connect calls, in call order.
Scripts ==
    \* the two pumps in series of examples/example_simple_system.py
    {[units |-> << <<"pump1", x>>, <<"pump2", "stateA">> >>,
      calls |-> << AddModel("pump1"), AddModel("pump2"),
                   Connect("pump1", "b", "pump2", "a") >>]
        : x \in StateNames}
    \cup
    \* the same chain registered downstream-first
    {[units |-> << <<"pump1", "stateA">>, <<"pump2", y>> >>,
      calls |-> << AddModel("pump2"), AddModel("pump1"),
                   Connect("pump1", "b", "pump2", "a") >>]
        : y \in {"stateA"}}
    \cup
    \* two pumps in a ring: the pressure rises in every pass
    {[units |-> << <<"pump1", x>>, <<"pump2", "stateA">> >>,
      calls |-> << AddModel("pump1"), AddModel("pump2"),
                   Connect("pump1", "b", "pump2", "a"),
                   Connect("pump2", "b", "pump1", "a") >>]
        : x \in {"stateA", "stateB"}}
    \cup
    \* a block registered before the models; the sensor feeds a pump and an adder
    {[units |-> << <<"add", "sig0">>, <<"sensor", y>>, <<"pump2", "stateA">> >>,
      calls |-> << AddBlock("add"), AddModel("sensor"), AddModel("pump2"),
                   Connect("sensor", "b", "pump2", "a"),
                   Connect("sensor", "d", "add", "c1") >>]
        : y \in {"stateA", "stateB"}}
    \cup
    \* an adder fed back into itself, registered before the constant that feeds it
    {[units |-> << <<"add", "sig0">>, <<"const", "sig0">> >>,
      calls |-> << AddBlock("add"), AddBlock("const"),
                   Connect("add", "d", "add", "c1"),
                   Connect("const", "d", "add", "c2") >>]}
    \cup
    \* a constant equal to the signal tolerance, evaluated before the adder it feeds
    {[units |-> << <<"const1", "sig0">>, <<"add", "sig0">> >>,
      calls |-> << AddBlock("const1"), AddBlock("add"),
                   Connect("const1", "d", "add", "c2") >>]}

\* The user objects: one heap object per name
UserObjects ==
    [stateA |-> 1, stateB |-> 2, stateC |-> 3, sig0 |-> 4]

UserMem ==
    [heap |-> [i \in 1..4 |->
                 CASE i = 1 -> UserValues.stateA [] i = 2 -> UserValues.stateB
                   [] i = 3 -> UserValues.stateC [] i = 4 -> UserValues.sig0],
     portObj |-> << >>]

\* Construct the script's units one after the other
RECURSIVE construct_all(_, _, _, _)
construct_all(mem, last0, units, i) ==
    IF i > Len(units) THEN [mem |-> mem, last |-> last0]
    ELSE LET c == Construct(mem, units[i][1], UserObjects[units[i][2]])
         IN construct_all(c.mem, FcnPut(last0, units[i][1], c.last), units, i + 1)

\* Run the script's setup calls one after the other (none of them raises)
RECURSIVE setup_all(_, _, _)
setup_all(sys, calls, i) ==
    IF i > Len(calls) THEN sys
    ELSE LET c == calls[i]
             r == CASE c.op = "add_model" -> add_model(sys, c.u)
                    [] c.op = "add_block" -> add_block(sys, c.u)
                    [] c.op = "connect" -> connect(sys, c.p1, c.p2)
         IN setup_all(r.sys, calls, i + 1)

\* BaseSystemClass.__init__(**kwargs): the defaults, overridden by the kwargs
\* given (here max_iteration_counter, stored as np.uint16)
BaseSystemClass_init(max_iteration_counter) ==
    [stop_criterion_energy |-> StopCriterionEnergyDefault,
     stop_criterion_momentum |-> StopCriterionMomentumDefault,
     stop_criterion_mass |-> StopCriterionMassDefault,
     stop_criterion_signal |-> StopCriterionSignalDefault,
     max_iteration_counter |->
        IF max_iteration_counter = -1 THEN MaxIterationCounterDefault
        ELSE Uint16(max_iteration_counter)]

NoResult == [set |-> FALSE, models |-> << >>, blocks |-> << >>,
             success |-> FALSE, status |-> -1, nit |-> 0]

\* ------------------------------------------------------------------- state
VARIABLES
    network, models, blocks, ports,     \* BaseSystemClass._network, _models, ...
    cfg,                                \* tolerances and max_iteration_counter
    iteration_counter,                  \* self._iteration_counter
    simulation_nodes,                   \* self._simulation_nodes
    result,                             \* self._result
    heap, portObj,                      \* payload objects and who holds them
    last,                               \* per unit: _last_hmass, _last_m_flow, ...
    pc, node_idx,                       \* position inside solve()
    solves, faults, userWrites,         \* bounded: solve() calls, exceptions, writes
    outcome,                            \* what the last solve() gave its caller
    raisedIn,                           \* where this solve()'s exception arose
    evals,                              \* equation() calls of the current pass
    passes,                             \* passes completed in this solve()
    compared,                           \* a delta was compared in this solve()
    alwaysExceeded,                     \* after every pass some delta exceeded
    setupCalls,                         \* add_model / add_block / connect calls made
    lastCall,                           \* the last of them, and whether it raised
    selfChecked                         \* check_self() calls of the last pre_solve()

vars == <<network, models, blocks, ports, cfg, iteration_counter,
          simulation_nodes, result, heap, portObj, last, pc, node_idx,
          solves, faults, userWrites, outcome, raisedIn, evals, passes,
          compared, alwaysExceeded, setupCalls, lastCall, selfChecked>>

setupVars == <<setupCalls, lastCall>>

topology == <<network, models, blocks, ports, cfg>>

ResultRoots(r) ==
    UNION {{r.models[u][pn] : pn \in DOMAIN r.models[u]} : u \in DOMAIN r.models}
    \cup UNION {{r.blocks[u][pn] : pn \in DOMAIN r.blocks[u]} : u \in DOMAIN r.blocks}

UserRoots == {UserObjects[n] : n \in DOMAIN UserObjects}

Roots(po, r) == PortRoots(po) \cup ResultRoots(r) \cup UserRoots

Init ==
    \E sc \in Scripts, M \in 0..MaxM :
        LET c == construct_all(UserMem, << >>, sc.units, 1)
            sys == setup_all(EmptySys, sc.calls, 1)
        IN /\ network = sys.network
           /\ models = sys.models
           /\ blocks = sys.blocks
           /\ ports = sys.ports
           /\ cfg = BaseSystemClass_init(M)
           /\ iteration_counter = 0
           /\ simulation_nodes = << >>
           /\ result = NoResult
           /\ portObj = c.mem.portObj
           /\ heap = Collect(c.mem.heap, Roots(c.mem.portObj, NoResult))
           /\ last = c.last
           /\ pc = "idle"
           /\ node_idx = 0
           /\ solves = 0
           /\ faults = 0
           /\ userWrites = 0
           /\ outcome = "none"
           /\ raisedIn = "none"
           /\ evals = << >>
           /\ passes = 0
           /\ compared = FALSE
           /\ alwaysExceeded = TRUE
           /\ setupCalls = Len(sc.calls)
           /\ lastCall = [call |-> sc.calls[Len(sc.calls)], raised |-> FALSE]
           /\ selfChecked = << >>


\* ------------------------------------------------------------- components
Abs(x) == IF x < 0 THEN -x ELSE x

\* The delta accessors (properties stop_criterion_energy, ..._signal)
\* The state port the energy and mass deltas of a model are taken from:
\* port a for BaseFluidOneInlet, port b otherwise
DeltaPort(u) == IF UnitClass(u) = "SinkFixedState" THEN PortNames[u].a ELSE PortNames[u].b

unit_stop_criterion_energy(mem, lst, u) ==
    IF IsModelClass(UnitClass(u))
    THEN hmass(PortValue(mem, u, DeltaPort(u))) - lst[u].hmass
    ELSE 0

unit_stop_criterion_momentum(mem, lst, u) == 0

unit_stop_criterion_mass(mem, lst, u) ==
    IF IsModelClass(UnitClass(u))
    THEN PortValue(mem, u, DeltaPort(u)).m_flow - lst[u].m_flow
    ELSE 0

unit_stop_criterion_signal(mem, lst, u) ==
    IF UnitClass(u) \in {"PumpSimple", "SourceFixedState", "SinkFixedState"} THEN 0
    ELSE PortValue(mem, u, PortNames[u].d).value - lst[u].signal_value

\* A pump that raises the pressure of its own outlet instead of its inlet's
PumpSimple_equation_from_outlet(mem, lst, u) ==
    LET a == PortValue(mem, u, PortNames[u].a)
        b == PortValue(mem, u, PortNames[u].b)
        l1 == [lst EXCEPT ![u].hmass = hmass(b), ![u].m_flow = b.m_flow]
    IN IF a.m_flow <= 0
       THEN [mem |-> mem, last |-> l1]
       ELSE LET b1 == set_ps(b, b.p + PumpDp(u), b.s)
                b2 == [b1 EXCEPT !.m_flow = a.m_flow]
            IN [mem |-> MutatePortObject(mem, u, PortNames[u].b, b2), last |-> l1]

\* PumpSimple.equation
PumpSimple_equation(mem, lst, u) ==
    LET a == PortValue(mem, u, PortNames[u].a)
        b == PortValue(mem, u, PortNames[u].b)
        l1 == [lst EXCEPT ![u].hmass = hmass(b), ![u].m_flow = b.m_flow]
    IN IF a.m_flow <= 0
       THEN [mem |-> mem, last |-> l1]
       ELSE LET b1 == set_ps(b, a.p + PumpDp(u), a.s)
                b2 == [b1 EXCEPT !.m_flow = a.m_flow]
            IN [mem |-> MutatePortObject(mem, u, PortNames[u].b, b2), last |-> l1]

\* SensorP.equation
SensorP_equation(mem, lst, u) ==
    LET b == PortValue(mem, u, PortNames[u].b)
        d == PortValue(mem, u, PortNames[u].d)
        l1 == [lst EXCEPT ![u] = LastRec(hmass(b), b.m_flow, d.value)]
        m1 == PortState_state_setter(mem, u, PortNames[u].b, mem.portObj[u][PortNames[u].a])
        m2 == MutatePortObject(m1, u, PortNames[u].d,
                               SignalVal(PortValue(m1, u, PortNames[u].a).p))
    IN [mem |-> m2, last |-> l1]

\* Addition.equation
Addition_equation(mem, lst, u) ==
    LET d == PortValue(mem, u, PortNames[u].d)
        l1 == [lst EXCEPT ![u].signal_value = d.value]
        v == PortValue(mem, u, PortNames[u].c1).value
             + PortValue(mem, u, PortNames[u].c2).value
    IN [mem |-> MutatePortObject(mem, u, PortNames[u].d, SignalVal(v)), last |-> l1]

\* Constant.equation
Constant_equation(mem, lst, u) == [mem |-> mem, last |-> lst]

\* SourceFixedState.equation and SinkFixedState.equation: return
SourceFixedState_equation(mem, lst, u) == [mem |-> mem, last |-> lst]

SinkFixedState_equation(mem, lst, u) == [mem |-> mem, last |-> lst]

unit_equation(mem, lst, u) ==
    CASE UnitClass(u) = "PumpSimple" -> PumpSimple_equation(mem, lst, u)
      [] UnitClass(u) = "SourceFixedState" -> SourceFixedState_equation(mem, lst, u)
      [] UnitClass(u) = "SinkFixedState" -> SinkFixedState_equation(mem, lst, u)
      [] UnitClass(u) = "SensorP" -> SensorP_equation(mem, lst, u)
      [] UnitClass(u) = "Addition" -> Addition_equation(mem, lst, u)
      [] UnitClass(u) = "Constant" -> Constant_equation(mem, lst, u)

\* get_results(): the ModelResult / BlockResult dicts hold the ports' payload
\* objects themselves
unit_get_results(mem, u) == mem.portObj[u]

\* ------------------------------------------------------------------ solver
\* A test that also keeps iterating on a delta equal to its tolerance
node_exceeds_or_equals(net, mem, lst, c, name) ==
    LET u == net.nodes[name].node_class
    IN IF net.nodes[name].node_type \notin {"MODEL", "BLOCK"} THEN FALSE
       ELSE IF net.nodes[name].node_type = "MODEL"
       THEN \/ Abs(unit_stop_criterion_energy(mem, lst, u)) >= c.stop_criterion_energy
            \/ Abs(unit_stop_criterion_momentum(mem, lst, u)) >= c.stop_criterion_momentum
            \/ Abs(unit_stop_criterion_mass(mem, lst, u)) >= c.stop_criterion_mass
            \/ Abs(unit_stop_criterion_signal(mem, lst, u)) >= c.stop_criterion_signal
       ELSE Abs(unit_stop_criterion_signal(mem, lst, u)) >= c.stop_criterion_signal

\* Does node `name` keep the iteration going?  (the body of the for loop of
\* stop_criterion for one node)
node_exceeds(net, mem, lst, c, name) ==
    LET u == net.nodes[name].node_class
    IN IF net.nodes[name].node_type \notin {"MODEL", "BLOCK"} THEN FALSE
       ELSE IF net.nodes[name].node_type = "MODEL"
       THEN \/ Abs(unit_stop_criterion_energy(mem, lst, u)) > c.stop_criterion_energy
            \/ Abs(unit_stop_criterion_momentum(mem, lst, u)) > c.stop_criterion_momentum
            \/ Abs(unit_stop_criterion_mass(mem, lst, u)) > c.stop_criterion_mass
            \/ Abs(unit_stop_criterion_signal(mem, lst, u)) > c.stop_criterion_signal
       ELSE Abs(unit_stop_criterion_signal(mem, lst, u)) > c.stop_criterion_signal

any_node_exceeds(net, mem, lst, c, nodes) ==
    \E i \in 1..Len(nodes) : node_exceeds(net, mem, lst, c, nodes[i])

\* A node that is neither MODEL nor BLOCK makes stop_criterion raise SystemExit,
\* unless an earlier node already returned True.
bad_node_first(net, mem, lst, c, nodes) ==
    \E i \in 1..Len(nodes) :
        /\ net.nodes[nodes[i]].node_type \notin {"MODEL", "BLOCK"}
        /\ \A j \in 1..(i - 1) : ~node_exceeds(net, mem, lst, c, nodes[j])

\* A stop_criterion without the unconditional first call: the deltas decide
\* from the start
stop_criterion_no_first_pass(ic, net, mem, lst, c, nodes) ==
    LET ic1 == Uint16(ic + 1)
    IN IF ic1 > c.max_iteration_counter
       THEN [counter |-> ic1, ret |-> FALSE, compared |-> FALSE, raised |-> FALSE]
       ELSE [counter |-> ic1, ret |-> any_node_exceeds(net, mem, lst, c, nodes),
             compared |-> Len(nodes) > 0, raised |-> FALSE]

\* A stop_criterion whose cap test is >= instead of >
stop_criterion_cap_off_by_one(ic, net, mem, lst, c, nodes) ==
    IF ic = 0
    THEN [counter |-> Uint16(ic + 1), ret |-> TRUE, compared |-> FALSE,
          raised |-> FALSE]
    ELSE LET ic1 == Uint16(ic + 1)
         IN IF ic1 >= c.max_iteration_counter
            THEN [counter |-> ic1, ret |-> FALSE, compared |-> FALSE,
                  raised |-> FALSE]
            ELSE [counter |-> ic1, ret |-> any_node_exceeds(net, mem, lst, c, nodes),
                  compared |-> Len(nodes) > 0, raised |-> FALSE]

\* SystemSimpleIterative.stop_criterion: the new counter, the value returned,
\* whether the deltas of the nodes were read (compared with the tolerances),
\* and whether it raised
stop_criterion(ic, net, mem, lst, c, nodes) ==
    IF ic = 0
    THEN [counter |-> Uint16(ic + 1), ret |-> TRUE, compared |-> FALSE,
          raised |-> FALSE]
    ELSE LET ic1 == Uint16(ic + 1)
         IN IF ic1 > c.max_iteration_counter
            THEN [counter |-> ic1, ret |-> FALSE, compared |-> FALSE,
                  raised |-> FALSE]
            ELSE IF bad_node_first(net, mem, lst, c, nodes)
            THEN [counter |-> ic1, ret |-> FALSE, compared |-> Len(nodes) > 0,
                  raised |-> TRUE]
            ELSE [counter |-> ic1, ret |-> any_node_exceeds(net, mem, lst, c, nodes),
                  compared |-> Len(nodes) > 0, raised |-> FALSE]

\* The values the check_self() calls of one BaseSystemClass.check_self() may
\* return, one per registered model and block
SelfCheckReturns(net, ms, bs) ==
    {rets \in [1..Len(ms \o bs) -> BOOLEAN] :
        \A i \in 1..Len(ms \o bs) :
            rets[i] \in CheckSelfReturns(net.nodes[(ms \o bs)[i]].node_class)}

\* A check_self that gives up at the first negative result
check_self_stops_at_negative(ms, bs, rets) ==
    LET order == ms \o bs
        stop == IF \E i \in 1..Len(order) : ~rets[i]
                THEN CHOOSE i \in 1..Len(order) :
                        ~rets[i] /\ \A j \in 1..(i - 1) : rets[j]
                ELSE Len(order)
    IN [i \in 1..stop |-> <<order[i], rets[i]>>]

\* BaseSystemClass.check_self: the check_self() of every model, then of every
\* block, is called; a negative result is logged.  The calls made, each with
\* the value it returned.
check_self(ms, bs, rets) ==
    LET order == ms \o bs
    IN [i \in 1..Len(order) |-> <<order[i], rets[i]>>]

\* A pre_solve that puts the blocks first
pre_solve_blocks_first(ms, bs) == bs \o ms

\* SystemSimpleIterative.pre_solve: the evaluation order
pre_solve(ms, bs) == ms \o bs

\* A propagation that takes every connection for a state connection
RECURSIVE prop_owners_state_only(_, _, _, _, _, _)
prop_owners_state_only(mem, net, node, outlet, connected, j) ==
    LET owners == nx_successors(net, connected)
    IN IF j > Len(owners) THEN [mem |-> mem, raised |-> FALSE]
       ELSE LET su == net.nodes[node].node_class
                du == net.nodes[owners[j]].node_class
            IN IF du = "none" \/ ~UnitHasPort(du, connected)
               THEN [mem |-> mem, raised |-> TRUE]
               ELSE prop_owners_state_only(
                        PortState_state_setter(mem, du, connected, mem.portObj[su][outlet]),
                        net, node, outlet, connected, j + 1)

\* The innermost loop of solve(): for successor_node_name in
\* successors(connected_port_name), from the j-th on
RECURSIVE prop_owners(_, _, _, _, _, _)
prop_owners(mem, net, node, outlet, connected, j) ==
    LET owners == nx_successors(net, connected)
    IN IF j > Len(owners) THEN [mem |-> mem, raised |-> FALSE]
       ELSE LET su == net.nodes[node].node_class
                du == net.nodes[owners[j]].node_class
            IN IF du = "none" \/ ~UnitHasPort(du, connected)
               THEN [mem |-> mem, raised |-> TRUE]
               ELSE LET st == UnitPortType(su, outlet)
                        dt == UnitPortType(du, connected)
                        m1 == IF /\ st \in {"STATE_OUTLET", "STATE_INLET_OUTLET"}
                                 /\ dt \in {"STATE_INLET", "STATE_INLET_OUTLET"}
                              THEN PortState_state_setter(mem, du, connected,
                                                          mem.portObj[su][outlet])
                              ELSE IF /\ st \in {"SIGNAL_OUTLET", "SIGNAL_INLET_OUTLET"}
                                      /\ dt \in {"SIGNAL_INLET", "SIGNAL_INLET_OUTLET"}
                              THEN PortSignal_signal_setter(mem, du, connected,
                                                            mem.portObj[su][outlet])
                              ELSE mem
                    IN prop_owners(m1, net, node, outlet, connected, j + 1)

\* for connected_port_name in successors(outlet_port_name), from the i-th on
RECURSIVE prop_connected(_, _, _, _, _)
prop_connected(mem, net, node, outlet, i) ==
    LET conn == nx_successors(net, outlet)
    IN IF i > Len(conn) THEN [mem |-> mem, raised |-> FALSE]
       ELSE LET r == prop_owners(mem, net, node, outlet, conn[i], 1)
            IN IF r.raised THEN r
               ELSE prop_connected(r.mem, net, node, outlet, i + 1)

\* A solver without the no-flow test
outlet_skipped_never(mem, u, outlet) == FALSE

\* The no-flow test: a state outlet whose m_flow <= 0 is skipped
outlet_skipped(mem, u, outlet) ==
    /\ IsStatePortType(UnitPortType(u, outlet))
    /\ PortValue(mem, u, outlet).m_flow <= 0

\* for outlet_port_name in successors(node_name), from the k-th on; an
\* exception raised while the faultAt-th outlet is handled ends the loop there
RECURSIVE prop_outlets(_, _, _, _, _)
prop_outlets(mem, net, node, k, faultAt) ==
    LET outs == nx_successors(net, node)
        u == net.nodes[node].node_class
    IN IF k > Len(outs) THEN [mem |-> mem, raised |-> FALSE]
       ELSE IF k = faultAt \/ ~UnitHasPort(u, outs[k])
       THEN [mem |-> mem, raised |-> TRUE]
       ELSE IF outlet_skipped(mem, u, outs[k])
       THEN prop_outlets(mem, net, node, k + 1, faultAt)
       ELSE LET r == prop_connected(mem, net, node, outs[k], 1)
            IN IF r.raised THEN r
               ELSE prop_outlets(r.mem, net, node, k + 1, faultAt)

\* A solver that leaves the propagation to the end of the pass
propagate_deferred(mem, net, node, faultAt) == [mem |-> mem, raised |-> FALSE]

propagate(mem, net, node, faultAt) == prop_outlets(mem, net, node, 1, faultAt)

\* BaseSystemClass.get_node_results
get_node_results(mem, net, ms, bs) ==
    [models |-> [n \in {ms[i] : i \in 1..Len(ms)} |->
                    unit_get_results(mem, net.nodes[n].node_class)],
     blocks |-> [n \in {bs[i] : i \in 1..Len(bs)} |->
                    unit_get_results(mem, net.nodes[n].node_class)]]

\* SystemResult.from_success / from_convergence / from_error
from_success(nr, nit) ==
    [set |-> TRUE, models |-> nr.models, blocks |-> nr.blocks,
     success |-> TRUE, status |-> 0, nit |-> nit]

from_convergence(nr, nit) ==
    [set |-> TRUE, models |-> nr.models, blocks |-> nr.blocks,
     success |-> FALSE, status |-> 1, nit |-> nit]

\* An ERRORED result that counts the passes completed, not the pass the
\* exception arose in
from_error_completed_passes(nr, nit) ==
    [set |-> TRUE, models |-> nr.models, blocks |-> nr.blocks,
     success |-> FALSE, status |-> 2, nit |-> nit - 1]

from_error(nr, nit) ==
    [set |-> TRUE, models |-> nr.models, blocks |-> nr.blocks,
     success |-> FALSE, status |-> 2, nit |-> nit]

\* A post-solve part that omits the test of the counter against the cap
post_solve_result_no_cap_test(nr, ic, c) ==
    from_success(nr, ic)

\* The result of the post-solve part of solve()
post_solve_result(nr, ic, c) ==
    IF ic > c.max_iteration_counter THEN from_convergence(nr, ic)
    ELSE from_success(nr, ic)

\* ----------------------------------------------------------------- actions
Mem == [heap |-> heap, portObj |-> portObj]

CurrentNode == simulation_nodes[node_idx]

CurrentUnit == network.nodes[CurrentNode].node_class

\* A pre_solve() that rebuilds the graph from the registered units and so
\* drops the connections
Solve_PreSolve_rebuilding ==
    /\ pc = "idle"
    /\ solves < MaxSolves
    /\ solves' = solves + 1
    /\ simulation_nodes' = pre_solve(models, blocks)
    /\ network' = [network EXCEPT
                      !.succ = [n \in DOMAIN network.succ |->
                                  IF network.nodes[n].node_type = "PORT"
                                  THEN SelectSeq(network.succ[n],
                                                 LAMBDA x : network.nodes[x].node_type # "PORT")
                                  ELSE network.succ[n]]]
    /\ pc' = "loop"
    /\ outcome' = "running"
    /\ raisedIn' = "none"
    /\ evals' = << >>
    /\ passes' = 0
    /\ compared' = FALSE
    /\ alwaysExceeded' = TRUE
    /\ \E rets \in SelfCheckReturns(network, models, blocks) :
          selfChecked' = check_self(models, blocks, rets)
    /\ UNCHANGED <<models, blocks, ports, cfg, setupVars, userWrites, iteration_counter,
                   result, heap, portObj, last, node_idx, faults>>

\* solve() is called: pre_solve() runs check_self(), whose results change
\* nothing, and fixes the order
Solve_PreSolve ==
    /\ pc = "idle"
    /\ solves < MaxSolves
    /\ solves' = solves + 1
    /\ simulation_nodes' = pre_solve(models, blocks)
    /\ pc' = "loop"
    /\ outcome' = "running"
    /\ raisedIn' = "none"
    /\ evals' = << >>
    /\ passes' = 0
    /\ compared' = FALSE
    /\ alwaysExceeded' = TRUE
    /\ \E rets \in SelfCheckReturns(network, models, blocks) :
          selfChecked' = check_self(models, blocks, rets)
    /\ UNCHANGED <<topology, setupVars, userWrites, iteration_counter, result, heap, portObj, last,
                   node_idx, faults>>

\* check_self() of the k-th unit raises: pre_solve() is outside the try block,
\* the exception reaches the caller of solve()
Solve_PreSolveRaises ==
    /\ pc = "idle"
    /\ solves < MaxSolves
    /\ faults < MaxFaults
    /\ Len(models) + Len(blocks) > 0
    /\ solves' = solves + 1
    /\ faults' = faults + 1
    /\ outcome' = "raised"
    /\ raisedIn' = "check_self"
    /\ evals' = << >>
    /\ passes' = 0
    /\ compared' = FALSE
    /\ alwaysExceeded' = TRUE
    /\ \E rets \in SelfCheckReturns(network, models, blocks), k \in 1..(Len(models) + Len(blocks)) :
          selfChecked' = SubSeq(check_self(models, blocks, rets), 1, k - 1)
    /\ UNCHANGED <<topology, setupVars, userWrites, iteration_counter, simulation_nodes, result, heap,
                   portObj, last, pc, node_idx>>

\* while self.stop_criterion(): one evaluation of the loop condition
Solve_StopCriterion ==
    /\ pc = "loop"
    /\ LET r == stop_criterion(iteration_counter, network, Mem, last, cfg,
                               simulation_nodes)
       IN /\ iteration_counter' = r.counter
          /\ IF r.raised
             THEN /\ pc' = "except"
                  /\ raisedIn' = "stop_criterion"
                  /\ UNCHANGED <<node_idx, evals>>
             ELSE /\ raisedIn' = raisedIn
                  /\ IF r.ret
                     THEN /\ evals' = << >>
                          /\ IF Len(simulation_nodes) = 0
                             THEN pc' = "loop" /\ node_idx' = node_idx
                             ELSE pc' = "equation" /\ node_idx' = 1
                     ELSE pc' = "post" /\ UNCHANGED <<node_idx, evals>>
          /\ compared' = (compared \/ r.compared)
    /\ UNCHANGED <<topology, setupVars, selfChecked, userWrites, simulation_nodes, result, heap, portObj, last,
                   solves, faults, outcome, passes, alwaysExceeded>>

\* a delta accessor raises inside stop_criterion()
Solve_StopCriterionRaises ==
    /\ pc = "loop"
    /\ faults < MaxFaults
    /\ LET r == stop_criterion(iteration_counter, network, Mem, last, cfg,
                               simulation_nodes)
       IN /\ r.compared
          /\ iteration_counter' = r.counter
    /\ faults' = faults + 1
    /\ pc' = "except"
    /\ raisedIn' = "stop_criterion"
    /\ compared' = TRUE
    /\ UNCHANGED <<topology, setupVars, selfChecked, userWrites, simulation_nodes, result, heap, portObj, last,
                   node_idx, solves, outcome, evals, passes, alwaysExceeded>>

\* node_class.equation() of the current node
Solve_Equation ==
    /\ pc = "equation"
    /\ LET r == unit_equation(Mem, last, CurrentUnit)
       IN /\ portObj' = r.mem.portObj
          /\ heap' = Collect(r.mem.heap, Roots(r.mem.portObj, result))
          /\ last' = r.last
    /\ evals' = Append(evals, CurrentNode)
    /\ pc' = "propagate"
    /\ UNCHANGED <<topology, setupVars, selfChecked, userWrites, iteration_counter, simulation_nodes, result,
                   node_idx, solves, faults, outcome, raisedIn, passes, compared,
                   alwaysExceeded>>

\* equation() of the current node raises: on entry, or after it has recorded
\* the last values and before it writes its outlets
Solve_EquationRaises ==
    /\ pc = "equation"
    /\ faults < MaxFaults
    /\ \E recorded \in BOOLEAN :
          last' = IF recorded THEN unit_equation(Mem, last, CurrentUnit).last
                  ELSE last
    /\ faults' = faults + 1
    /\ evals' = Append(evals, CurrentNode)
    /\ pc' = "except"
    /\ raisedIn' = "equation"
    /\ UNCHANGED <<topology, setupVars, selfChecked, userWrites, iteration_counter, simulation_nodes, result, heap,
                   portObj, node_idx, solves, outcome, passes, compared,
                   alwaysExceeded>>

\* After the current node: the next node, or the end of the pass
PassAdvance(mem) ==
    IF node_idx < Len(simulation_nodes)
    THEN /\ node_idx' = node_idx + 1
         /\ pc' = "equation"
         /\ UNCHANGED <<passes, alwaysExceeded>>
    ELSE /\ node_idx' = node_idx
         /\ pc' = "loop"
         /\ passes' = passes + 1
         /\ alwaysExceeded' = (alwaysExceeded /\
                any_node_exceeds(network, mem, last, cfg, simulation_nodes))

\* propagation of the current node's outlets
Solve_Propagate ==
    /\ pc = "propagate"
    /\ LET r == propagate(Mem, network, CurrentNode, 0)
       IN /\ portObj' = r.mem.portObj
          /\ heap' = Collect(r.mem.heap, Roots(r.mem.portObj, result))
          /\ IF r.raised
             THEN /\ pc' = "except"
                  /\ raisedIn' = "propagate"
                  /\ UNCHANGED <<node_idx, passes, alwaysExceeded>>
             ELSE /\ raisedIn' = raisedIn
                  /\ PassAdvance([heap |-> heap', portObj |-> portObj'])
    /\ UNCHANGED <<topology, setupVars, selfChecked, userWrites, iteration_counter, simulation_nodes, result, last,
                   solves, faults, outcome, evals, compared>>

\* an exception is raised while the k-th outlet of the current node is propagated
Solve_PropagateRaises ==
    /\ pc = "propagate"
    /\ faults < MaxFaults
    /\ \E k \in 1..Len(nx_successors(network, CurrentNode)) :
          LET r == propagate(Mem, network, CurrentNode, k)
          IN /\ portObj' = r.mem.portObj
             /\ heap' = Collect(r.mem.heap, Roots(r.mem.portObj, result))
    /\ faults' = faults + 1
    /\ pc' = "except"
    /\ raisedIn' = "propagate"
    /\ UNCHANGED <<topology, setupVars, selfChecked, userWrites, iteration_counter, simulation_nodes, result, last,
                   node_idx, solves, outcome, evals, passes, compared,
                   alwaysExceeded>>

\* except BaseException: the ERRORED result is stored and returned
Solve_Except ==
    /\ pc = "except"
    /\ result' = from_error(get_node_results(Mem, network, models, blocks),
                            iteration_counter)
    /\ heap' = Collect(heap, Roots(portObj, result'))
    /\ outcome' = "returned"
    /\ pc' = "idle"
    /\ UNCHANGED <<topology, setupVars, selfChecked, userWrites, iteration_counter, simulation_nodes, portObj, last,
                   node_idx, solves, faults, raisedIn, evals, passes, compared,
                   alwaysExceeded>>

\* get_results() raises inside the except handler: nothing catches it, the
\* caller of solve() gets this exception (raisedIn keeps where the first arose)
Solve_ExceptRaises ==
    /\ pc = "except"
    /\ faults < MaxFaults
    /\ Len(models) + Len(blocks) > 0
    /\ faults' = faults + 1
    /\ outcome' = "raised"
    /\ pc' = "idle"
    /\ UNCHANGED <<topology, setupVars, selfChecked, userWrites, iteration_counter, simulation_nodes, result, heap,
                   portObj, last, node_idx, solves, raisedIn, evals, passes,
                   compared,
                   alwaysExceeded>>

\* Post-solve: the loop ended without exception
Solve_PostSolve ==
    /\ pc = "post"
    /\ result' = post_solve_result(get_node_results(Mem, network, models, blocks),
                                   iteration_counter, cfg)
    /\ heap' = Collect(heap, Roots(portObj, result'))
    /\ outcome' = "returned"
    /\ pc' = "idle"
    /\ UNCHANGED <<topology, setupVars, selfChecked, userWrites, iteration_counter, simulation_nodes, portObj, last,
                   node_idx, solves, faults, raisedIn, evals, passes, compared,
                   alwaysExceeded>>

\* get_results() raises in the post-solve part, which is outside the try block
Solve_PostSolveRaises ==
    /\ pc = "post"
    /\ faults < MaxFaults
    /\ Len(models) + Len(blocks) > 0
    /\ faults' = faults + 1
    /\ outcome' = "raised"
    /\ raisedIn' = "get_results"
    /\ pc' = "idle"
    /\ UNCHANGED <<topology, setupVars, selfChecked, userWrites, iteration_counter, simulation_nodes, result, heap,
                   portObj, last, node_idx, solves, evals, passes, compared,
                   alwaysExceeded>>

\* Between two solve() calls the user writes to a payload object through the
\* public API: state.m_flow = x or signal.value = x, on an object the user
\* created (state0) or on the object a port's getter returns.  The ports the
\* user reaches are those of the first unit of the evaluation order.
UserWriteValue(v) ==
    IF v.kind = "state"
    THEN [v EXCEPT !.m_flow = IF v.m_flow > 0 THEN 0 ELSE 20]
    ELSE [v EXCEPT !.value = v.value + 7]

UserWritable ==
    LET u == network.nodes[pre_solve(models, blocks)[1]].node_class
    IN {UserObjects.stateA} \cup {portObj[u][pn] : pn \in DOMAIN portObj[u]}

User_Write ==
    /\ pc = "idle"
    /\ userWrites < MaxUserWrites
    /\ userWrites' = userWrites + 1
    /\ \E id \in UserWritable : heap' = HeapPut(heap, id, UserWriteValue(heap[id]))
    /\ UNCHANGED <<topology, setupVars, selfChecked, iteration_counter, simulation_nodes, result, portObj,
                   last, pc, node_idx, solves, faults, outcome, raisedIn, evals,
                   passes, compared, alwaysExceeded>>

Next ==
    \/ User_Write
    \/ Solve_PreSolve
    \/ Solve_PreSolveRaises
    \/ Solve_StopCriterion
    \/ Solve_StopCriterionRaises
    \/ Solve_Equation
    \/ Solve_EquationRaises
    \/ Solve_Propagate
    \/ Solve_PropagateRaises
    \/ Solve_Except
    \/ Solve_ExceptRaises
    \/ Solve_PostSolve
    \/ Solve_PostSolveRaises

Spec == Init /\ [][Next]_vars

\* ------------------------------------------------------------ system setup
\* The user builds a system: units are constructed, then add_model, add_block
\* and connect are called in any order, with any of the constructed units and
\* ports; a call that raises SystemExit is caught by the user, who goes on.
SetupUnits == {"pump1", "pump2", "add", "pump1_again", "const_pump1", "pump_b", "valve"}

SetupConstructed ==
    << <<"pump1", "stateA">>, <<"pump2", "stateA">>, <<"add", "sig0">>,
       <<"pump1_again", "stateA">>, <<"const_pump1", "sig0">>,
       <<"pump_b", "stateA">>, <<"valve", "stateA">> >>

\* The connect calls the user may make: <<port1, port2>>
ConnectCalls ==
    {Connect("pump1", "b", "pump2", "a"),
     Connect("pump2", "a", "pump1", "b"),
     Connect("pump1", "b", "add", "c1"),
     Connect("add", "d", "add", "c1"),
     Connect("valve", "c", "pump2", "a"),
     Connect("pump1", "b", "valve", "c")}

NoCall == [call |-> Call("none", "none", << >>, << >>), raised |-> FALSE]

Sys == [network |-> network, models |-> models, blocks |-> blocks, ports |-> ports]

SetupInit ==
    LET c == construct_all(UserMem, << >>, SetupConstructed, 1)
    IN /\ network = EmptySys.network
       /\ models = EmptySys.models
       /\ blocks = EmptySys.blocks
       /\ ports = EmptySys.ports
       /\ cfg = BaseSystemClass_init(-1)
       /\ iteration_counter = 0
       /\ simulation_nodes = << >>
       /\ result = NoResult
       /\ portObj = c.mem.portObj
       /\ heap = Collect(c.mem.heap, Roots(c.mem.portObj, NoResult))
       /\ last = c.last
       /\ pc = "idle"
       /\ node_idx = 0
       /\ solves = 0
       /\ faults = 0
       /\ userWrites = 0
       /\ outcome = "none"
       /\ raisedIn = "none"
       /\ evals = << >>
       /\ passes = 0
       /\ compared = FALSE
       /\ alwaysExceeded = TRUE
       /\ setupCalls = 0
       /\ lastCall = NoCall
       /\ selfChecked = << >>

\* What a setup call leaves behind
SetupDone(r, call) ==
    /\ network' = r.sys.network
    /\ models' = r.sys.models
    /\ blocks' = r.sys.blocks
    /\ ports' = r.sys.ports
    /\ lastCall' = [call |-> call, raised |-> r.raised]
    /\ setupCalls' = setupCalls + 1
    /\ UNCHANGED <<cfg, iteration_counter, simulation_nodes, result, heap, portObj,
                   last, pc, node_idx, solves, faults, userWrites, outcome,
                   raisedIn, evals, passes, compared, alwaysExceeded, selfChecked>>

Setup_add_model ==
    /\ setupCalls < MaxSetupCalls
    /\ \E u \in {x \in SetupUnits : IsModelClass(UnitClass(x))} :
          SetupDone(add_model(Sys, u), AddModel(u))

Setup_add_block ==
    /\ setupCalls < MaxSetupCalls
    /\ \E u \in {x \in SetupUnits : ~IsModelClass(UnitClass(x))} :
          SetupDone(add_block(Sys, u), AddBlock(u))

Setup_connect ==
    /\ setupCalls < MaxSetupCalls
    /\ \E c \in ConnectCalls : SetupDone(connect(Sys, c.p1, c.p2), c)

SetupNext ==
    \/ Setup_add_model
    \/ Setup_add_block
    \/ Setup_connect

SetupSpec == SetupInit /\ [][SetupNext]_vars

\* ------------------------------------------------- graph clear and freeze
\* nx.DiGraph.clear(): every node, edge and attribute is removed
nx_clear(net) == EmptyNetwork

\* BaseSystemClass.clear: the graph is emptied; _models, _blocks and _ports
\* are not touched.
clear(sys) == [sys |-> [sys EXCEPT !.network = nx_clear(sys.network)], raised |-> FALSE]

\* BaseSystemClass.freeze: a networkx graph has no method freeze (freezing is
\* the module function nx.freeze(G)), so the attribute lookup raises
\* AttributeError before anything is changed.
freeze(sys) == [sys |-> sys, raised |-> TRUE]

Clear == Call("clear", "none", << >>, << >>)
Freeze == Call("freeze", "none", << >>, << >>)

Setup_clear ==
    /\ setupCalls < MaxSetupCalls
    /\ SetupDone(clear(Sys), Clear)

Setup_freeze ==
    /\ setupCalls < MaxSetupCalls
    /\ SetupDone(freeze(Sys), Freeze)

\* The setup calls of above together with clear() and freeze(), in any order;
\* the user catches what a call raises and goes on.
LifecycleNext ==
    \/ Setup_add_model
    \/ Setup_add_block
    \/ Setup_connect
    \/ Setup_clear
    \/ Setup_freeze

LifecycleSpec == SetupInit /\ [][LifecycleNext]_vars

\* ------------------------------------------------- the two pumps in series
\* The chain of examples/example_simple_system.py: pump1 feeds pump2, state0
\* with m_flow > 0; here the system is created with its default tolerances
\* and cap, and the two pumps are registered in either order.
ChainScripts ==
    {[units |-> << <<"pump1", "stateA">>, <<"pump2", "stateA">> >>,
      calls |-> << AddModel(first), AddModel(second),
                   Connect("pump1", "b", "pump2", "a") >>]
        : <<first, second>> \in {<<"pump1", "pump2">>, <<"pump2", "pump1">>}}

ChainInit ==
    \E sc \in ChainScripts :
        LET c == construct_all(UserMem, << >>, sc.units, 1)
            sys == setup_all(EmptySys, sc.calls, 1)
        IN /\ network = sys.network
           /\ models = sys.models
           /\ blocks = sys.blocks
           /\ ports = sys.ports
           /\ cfg = BaseSystemClass_init(-1)
           /\ iteration_counter = 0
           /\ simulation_nodes = << >>
           /\ result = NoResult
           /\ portObj = c.mem.portObj
           /\ heap = Collect(c.mem.heap, Roots(c.mem.portObj, NoResult))
           /\ last = c.last
           /\ pc = "idle"
           /\ node_idx = 0
           /\ solves = 0
           /\ faults = 0
           /\ userWrites = 0
           /\ outcome = "none"
           /\ raisedIn = "none"
           /\ evals = << >>
           /\ passes = 0
           /\ compared = FALSE
           /\ alwaysExceeded = TRUE
           /\ setupCalls = Len(sc.calls)
           /\ lastCall = [call |-> sc.calls[Len(sc.calls)], raised |-> FALSE]
           /\ selfChecked = << >>

\* solve() runs in the caller's thread: once called, each of its steps is
\* taken as soon as it is the next one
SolveFairness ==
    /\ WF_vars(Solve_StopCriterion)
    /\ WF_vars(Solve_Equation)
    /\ WF_vars(Solve_Propagate)
    /\ WF_vars(Solve_PostSolve)
    /\ WF_vars(Solve_Except)

ChainSpec == ChainInit /\ [][Next]_vars /\ SolveFairness

\* The same chain with the cap given as max_iteration_counter: any cap of
\* 0..MaxM, or none given (the default)
ChainCaps == (0..MaxM) \cup {-1}

ChainCapInit ==
    \E sc \in ChainScripts, M \in ChainCaps :
        LET c == construct_all(UserMem, << >>, sc.units, 1)
            sys == setup_all(EmptySys, sc.calls, 1)
        IN /\ network = sys.network
           /\ models = sys.models
           /\ blocks = sys.blocks
           /\ ports = sys.ports
           /\ cfg = BaseSystemClass_init(M)
           /\ iteration_counter = 0
           /\ simulation_nodes = << >>
           /\ result = NoResult
           /\ portObj = c.mem.portObj
           /\ heap = Collect(c.mem.heap, Roots(c.mem.portObj, NoResult))
           /\ last = c.last
           /\ pc = "idle"
           /\ node_idx = 0
           /\ solves = 0
           /\ faults = 0
           /\ userWrites = 0
           /\ outcome = "none"
           /\ raisedIn = "none"
           /\ evals = << >>
           /\ passes = 0
           /\ compared = FALSE
           /\ alwaysExceeded = TRUE
           /\ setupCalls = Len(sc.calls)
           /\ lastCall = [call |-> sc.calls[Len(sc.calls)], raised |-> FALSE]
           /\ selfChecked = << >>

ChainCapSpec == ChainCapInit /\ [][Next]_vars

\* ------------------------------------------- units with their own check_self
\* A chain whose downstream pump and whose constant block come from the
\* user's own subclasses: their check_self() may return False.  The downstream
\* pump is registered first, the cap is any of ChainCaps.
CheckedScript ==
    [units |-> << <<"pump_u", "stateA">>, <<"pump1", "stateA">>, <<"const_u", "sig0">> >>,
     calls |-> << AddModel("pump_u"), AddModel("pump1"), AddBlock("const_u"),
                  Connect("pump1", "b", "pump_u", "a") >>]

CheckedInit ==
    \E M \in ChainCaps :
        LET sc == CheckedScript
            c == construct_all(UserMem, << >>, sc.units, 1)
            sys == setup_all(EmptySys, sc.calls, 1)
        IN /\ network = sys.network
           /\ models = sys.models
           /\ blocks = sys.blocks
           /\ ports = sys.ports
           /\ cfg = BaseSystemClass_init(M)
           /\ iteration_counter = 0
           /\ simulation_nodes = << >>
           /\ result = NoResult
           /\ portObj = c.mem.portObj
           /\ heap = Collect(c.mem.heap, Roots(c.mem.portObj, NoResult))
           /\ last = c.last
           /\ pc = "idle"
           /\ node_idx = 0
           /\ solves = 0
           /\ faults = 0
           /\ userWrites = 0
           /\ outcome = "none"
           /\ raisedIn = "none"
           /\ evals = << >>
           /\ passes = 0
           /\ compared = FALSE
           /\ alwaysExceeded = TRUE
           /\ setupCalls = Len(sc.calls)
           /\ lastCall = [call |-> sc.calls[Len(sc.calls)], raised |-> FALSE]
           /\ selfChecked = << >>

CheckedSpec == CheckedInit /\ [][Next]_vars

\* The solve loop as a function of where it starts: one pass over the nodes
\* from the i-th on (equation(), then propagation, node by node) ...
RECURSIVE run_pass(_, _, _, _, _)
run_pass(mem, lst, net, nodes, i) ==
    IF i > Len(nodes) THEN [mem |-> mem, last |-> lst]
    ELSE LET e == unit_equation(mem, lst, net.nodes[nodes[i]].node_class)
             p == propagate(e.mem, net, nodes[i], 0)
         IN run_pass(p.mem, e.last, net, nodes, i + 1)

\* ... n full passes one after the other ...
RECURSIVE run_passes(_, _, _, _, _)
run_passes(mem, lst, net, nodes, n) ==
    IF n = 0 THEN [mem |-> mem, last |-> lst]
    ELSE LET p == run_pass(mem, lst, net, nodes, 1)
         IN run_passes(p.mem, p.last, net, nodes, n - 1)

\* ... and pass after pass while stop_criterion() returns True: the memory,
\* the last values and the counter the loop ends with
RECURSIVE run_loop(_, _, _, _, _, _)
run_loop(mem, lst, ic, net, c, nodes) ==
    LET r == stop_criterion(ic, net, mem, lst, c, nodes)
    IN IF r.ret
       THEN LET p == run_pass(mem, lst, net, nodes, 1)
            IN run_loop(p.mem, p.last, r.counter, net, c, nodes)
       ELSE [mem |-> mem, last |-> lst, counter |-> r.counter]

\* ------------------------------------------------ a chain ending in a sink
\* SourceFixedState -> PumpSimple -> SinkFixedState, registered in that order,
\* all built on stateA (m_flow > 0); the cap is MaxM or a little more, so that
\* the two passes the values need to settle, and a third, fit under it.
SinkCaps == MaxM..(MaxM + 2)

SinkScript ==
    [units |-> << <<"source", "stateA">>, <<"pump1", "stateA">>, <<"sink", "stateA">> >>,
     calls |-> << AddModel("source"), AddModel("pump1"), AddModel("sink"),
                  Connect("source", "b", "pump1", "a"),
                  Connect("pump1", "b", "sink", "a") >>]

SinkInit ==
    \E M \in SinkCaps :
        LET sc == SinkScript
            c == construct_all(UserMem, << >>, sc.units, 1)
            sys == setup_all(EmptySys, sc.calls, 1)
        IN /\ network = sys.network
           /\ models = sys.models
           /\ blocks = sys.blocks
           /\ ports = sys.ports
           /\ cfg = BaseSystemClass_init(M)
           /\ iteration_counter = 0
           /\ simulation_nodes = << >>
           /\ result = NoResult
           /\ portObj = c.mem.portObj
           /\ heap = Collect(c.mem.heap, Roots(c.mem.portObj, NoResult))
           /\ last = c.last
           /\ pc = "idle"
           /\ node_idx = 0
           /\ solves = 0
           /\ faults = 0
           /\ userWrites = 0
           /\ outcome = "none"
           /\ raisedIn = "none"
           /\ evals = << >>
           /\ passes = 0
           /\ compared = FALSE
           /\ alwaysExceeded = TRUE
           /\ setupCalls = Len(sc.calls)
           /\ lastCall = [call |-> sc.calls[Len(sc.calls)], raised |-> FALSE]
           /\ selfChecked = << >>

SinkSpec == SinkInit /\ [][Next]_vars

\* --------------------------------------------------- caps at the counter's end
\* A system that never settles (the adder adds a constant to its own output
\* in every pass), created with a small cap or with the largest cap a 16-bit
\* counter can hold, and solved without anything raising.  The loop is
\* followed for a few passes beyond 2^16.
WrapCaps == {MaxM, Uint16Modulus - 1}

\* two passes more than the 2^16 values of the counter
WrapPasses == 65538

WrapScript ==
    [units |-> << <<"const", "sig0">>, <<"add", "sig0">> >>,
     calls |-> << AddBlock("const"), AddBlock("add"),
                  Connect("add", "d", "add", "c1"),
                  Connect("const", "d", "add", "c2") >>]

WrapInit ==
    \E M \in WrapCaps :
        LET sc == WrapScript
            c == construct_all(UserMem, << >>, sc.units, 1)
            sys == setup_all(EmptySys, sc.calls, 1)
        IN /\ network = sys.network
           /\ models = sys.models
           /\ blocks = sys.blocks
           /\ ports = sys.ports
           /\ cfg = BaseSystemClass_init(M)
           /\ iteration_counter = 0
           /\ simulation_nodes = << >>
           /\ result = NoResult
           /\ portObj = c.mem.portObj
           /\ heap = Collect(c.mem.heap, Roots(c.mem.portObj, NoResult))
           /\ last = c.last
           /\ pc = "idle"
           /\ node_idx = 0
           /\ solves = 0
           /\ faults = 0
           /\ userWrites = 0
           /\ outcome = "none"
           /\ raisedIn = "none"
           /\ evals = << >>
           /\ passes = 0
           /\ compared = FALSE
           /\ alwaysExceeded = TRUE
           /\ setupCalls = Len(sc.calls)
           /\ lastCall = [call |-> sc.calls[Len(sc.calls)], raised |-> FALSE]
           /\ selfChecked = << >>

\* while self.stop_criterion(), followed for at most WrapPasses passes
Wrap_StopCriterion == passes < WrapPasses /\ Solve_StopCriterion

WrapNext ==
    \/ Solve_PreSolve
    \/ Wrap_StopCriterion
    \/ Solve_Equation
    \/ Solve_Propagate
    \/ Solve_PostSolve

WrapSpec == WrapInit /\ [][WrapNext]_vars

\* ------------------------------------------------------ one unit on its own
\* A unit is constructed and its equation() is called directly, any number of
\* times; in between the user assigns a payload to one of its inlet ports.
\* simulation_nodes holds the unit, evals the calls since the last assignment.
EqConstructed(x) ==
    << <<"pump1", x>>, <<"sensor", x>>, <<"add", "sig0">>, <<"const", "sig0">>,
       <<"source", x>>, <<"sink", x>> >>

EqUnits == {"pump1", "sensor", "add", "const", "source", "sink"}

EqInit ==
    \E x \in StateNames, u \in EqUnits :
        LET c == construct_all(UserMem, << >>, EqConstructed(x), 1)
        IN /\ network = EmptySys.network
           /\ models = EmptySys.models
           /\ blocks = EmptySys.blocks
           /\ ports = EmptySys.ports
           /\ cfg = BaseSystemClass_init(-1)
           /\ iteration_counter = 0
           /\ simulation_nodes = <<u>>
           /\ result = NoResult
           /\ portObj = c.mem.portObj
           /\ heap = Collect(c.mem.heap, Roots(c.mem.portObj, NoResult))
           /\ last = c.last
           /\ pc = "idle"
           /\ node_idx = 0
           /\ solves = 0
           /\ faults = 0
           /\ userWrites = 0
           /\ outcome = "none"
           /\ raisedIn = "none"
           /\ evals = << >>
           /\ passes = 0
           /\ compared = FALSE
           /\ alwaysExceeded = TRUE
           /\ setupCalls = 0
           /\ lastCall = NoCall
           /\ selfChecked = << >>

\* The inlet ports of a unit, and the payload objects the user may assign to
\* a port: the user's own objects, or the payload of the Constant's outlet
EqInlets(u) ==
    {pn \in {UnitPortSeq(u)[i] : i \in 1..Len(UnitPortSeq(u))} :
        UnitPortType(u, pn) \in {"STATE_INLET", "SIGNAL_INLET"}}

EqSources(u, pn) ==
    IF IsStatePortType(UnitPortType(u, pn))
    THEN {UserObjects[n] : n \in StateNames}
    ELSE {UserObjects.sig0, portObj["const"][PortNames["const"].d]}

\* unit.port.state = obj / unit.port.signal = obj on an inlet of the unit
Eq_SetInlet ==
    /\ userWrites < MaxUserWrites
    /\ userWrites' = userWrites + 1
    /\ \E pn \in EqInlets(simulation_nodes[1]) :
          \E src \in EqSources(simulation_nodes[1], pn) :
             LET u == simulation_nodes[1]
                 m == IF IsStatePortType(UnitPortType(u, pn))
                      THEN PortState_state_setter(Mem, u, pn, src)
                      ELSE PortSignal_signal_setter(Mem, u, pn, src)
             IN /\ portObj' = m.portObj
                /\ heap' = Collect(m.heap, Roots(m.portObj, result))
    /\ evals' = << >>
    /\ UNCHANGED <<topology, setupVars, selfChecked, iteration_counter, simulation_nodes, result,
                   last, pc, node_idx, solves, faults, outcome, raisedIn, passes,
                   compared, alwaysExceeded>>

\* unit.equation()
Eq_Equation ==
    /\ Len(evals) < MaxEqCalls
    /\ LET r == unit_equation(Mem, last, simulation_nodes[1])
       IN /\ portObj' = r.mem.portObj
          /\ heap' = Collect(r.mem.heap, Roots(r.mem.portObj, result))
          /\ last' = r.last
    /\ evals' = Append(evals, simulation_nodes[1])
    /\ UNCHANGED <<topology, setupVars, selfChecked, iteration_counter, simulation_nodes, result,
                   pc, node_idx, solves, faults, userWrites, outcome, raisedIn,
                   passes, compared, alwaysExceeded>>

EqNext ==
    \/ Eq_SetInlet
    \/ Eq_Equation

EqSpec == EqInit /\ [][EqNext]_vars

\* -------------------------------------------------------------- properties
\* solve() has ended, by a return or by an exception that reached the caller
SolveEnded == pc = "idle" /\ solves > 0

\* C1: every solve() that returns leaves a stored SystemResult of exactly one
\* of three kinds: ERRORED (status 2) iff an exception arose inside the loop,
\* NOT-CONVERGED (status 1) iff none arose and the counter is past the cap,
\* CONVERGED (status 0) iff none arose and the counter is within the cap;
\* success is true iff status is 0, and nit is the counter at exit.
C1_TerminalOutcomes ==
    (SolveEnded /\ outcome = "returned") =>
        /\ result.set
        /\ result.status \in {0, 1, 2}
        /\ result.success <=> (result.status = 0)
        /\ result.nit = iteration_counter
        /\ (result.status = 2) <=> (raisedIn # "none")
        /\ (result.status = 1) <=>
              (raisedIn = "none" /\ iteration_counter > cfg.max_iteration_counter)
        /\ (result.status = 0) <=>
              (raisedIn = "none" /\ iteration_counter <= cfg.max_iteration_counter)

\* A solve() that ran into the cap has returned NOT-CONVERGED
C1_Witness ==
    /\ SolveEnded
    /\ outcome = "returned"
    /\ passes >= 1
    /\ iteration_counter > cfg.max_iteration_counter
    /\ result.status = 1

\* The first solve() on the system returned without an exception, and after
\* every one of its passes some node's delta exceeded its tolerance
FreshSolveNeverSettled ==
    /\ SolveEnded
    /\ solves = 1
    /\ outcome = "returned"
    /\ raisedIn = "none"
    /\ alwaysExceeded

\* C2 as stated: for every cap M >= 0, a fresh solve() whose deltas exceed a
\* tolerance after every pass returns NOT-CONVERGED with nit = M + 1.
C2_AsStated ==
    FreshSolveNeverSettled =>
        /\ result.status = 1
        /\ result.nit = cfg.max_iteration_counter + 1

\* C2 amended: such a solve() returns NOT-CONVERGED; for M >= 1 after M passes
\* with nit = M + 1; for M = 0 after the one pass the first call of
\* stop_criterion always grants, with nit = 2.
C2_IterationCap ==
    FreshSolveNeverSettled =>
        /\ result.status = 1
        /\ ~result.success
        /\ IF cfg.max_iteration_counter = 0
           THEN result.nit = 2 /\ passes = 1
           ELSE /\ result.nit = cfg.max_iteration_counter + 1
                /\ passes = cfg.max_iteration_counter

\* The ring of two pumps ran into a cap M >= 2
C2_Witness ==
    /\ FreshSolveNeverSettled
    /\ cfg.max_iteration_counter >= 2
    /\ passes = cfg.max_iteration_counter
    /\ result.nit = cfg.max_iteration_counter + 1

\* The registered units, models in add_model order then blocks in add_block order
RegistrationOrder == models \o blocks

\* C3: in the first solve() on a system, no delta is compared with a tolerance
\* before one full pass (equation() of every registered model and block) is
\* done; the first call of stop_criterion() returns true (the loop body is
\* entered, nothing raised, no post-solve) and leaves iteration_counter = 1.
C3_FirstPassUnconditional ==
    (solves = 1 /\ outcome = "running") =>
        /\ compared => passes >= 1
        /\ (passes = 0) =>
              /\ pc \in {"loop", "equation", "propagate", "except"}
              /\ (pc = "loop") => iteration_counter = 0
              /\ (pc # "loop") => iteration_counter = 1
              /\ (pc = "except") => raisedIn \in {"equation", "propagate"}
        /\ (passes >= 1 /\ pc = "loop" /\ ~compared) =>
              /\ iteration_counter = 1
              /\ evals = RegistrationOrder

\* The first pass of a first solve() is done, every unit has been evaluated,
\* all deltas were zero at the start, and no delta has been compared yet
C3_Witness ==
    /\ solves = 1
    /\ outcome = "running"
    /\ pc = "loop"
    /\ passes = 1
    /\ ~compared
    /\ iteration_counter = 1
    /\ cfg.max_iteration_counter >= 2
    /\ Len(evals) = Len(models) + Len(blocks)
    /\ Len(blocks) > 0

\* C4 as stated: every solve() starts with iteration_counter = 0 (the loop
\* condition is first evaluated with the counter at 0), so every solve() that
\* returns without an exception has run at least one pass.
C4_AsStated ==
    /\ (outcome = "running" /\ pc = "loop" /\ passes = 0) => iteration_counter = 0
    /\ (SolveEnded /\ outcome = "returned" /\ raisedIn = "none") => passes >= 1

\* A second solve() returned CONVERGED without a single pass: its first call of
\* stop_criterion found the counter the previous solve() left
C4_Witness ==
    /\ SolveEnded
    /\ solves = 2
    /\ outcome = "returned"
    /\ result.success
    /\ passes = 0
    /\ result.nit >= 2

\* C5: in every pass equation() is invoked once per registered unit, in the
\* order models (as added) then blocks (as added): the calls made so far in
\* the current pass are a prefix of that order, and all of it when a pass ends.
C5_EvaluationOrder ==
    (outcome = "running") =>
        /\ Len(evals) <= Len(RegistrationOrder)
        /\ evals = SubSeq(RegistrationOrder, 1, Len(evals))
        /\ (pc = "equation") => Len(evals) = node_idx - 1
        /\ (pc = "propagate") => Len(evals) = node_idx
        /\ (pc = "loop" /\ passes >= 1) => evals = RegistrationOrder
        /\ (pc = "post" /\ passes >= 1) => evals = RegistrationOrder

\* The second pass is complete on the system whose block was added before its
\* models: the models were evaluated first, in add_model order
C5_Witness ==
    /\ outcome = "running"
    /\ pc = "loop"
    /\ passes = 2
    /\ models = <<"sensor", "pump2">>
    /\ blocks = <<"add">>
    /\ evals = <<"sensor", "pump2", "add">>

\* The connections as the solver walks them: <<node, outlet, owner, inlet>>
\* with outlet a successor of node, inlet a successor of outlet and owner a
\* successor of inlet
SeqRange(seq) == {seq[k] : k \in 1..Len(seq)}

Links ==
    UNION {UNION {UNION {{<<n, o, d, i>> : d \in SeqRange(nx_successors(network, i))}
                         : i \in SeqRange(nx_successors(network, o))}
                  : o \in SeqRange(nx_successors(network, n))}
           : n \in SeqRange(RegistrationOrder)}

\* The position of a node in the evaluation order
Position(n) == CHOOSE k \in 1..Len(simulation_nodes) : simulation_nodes[k] = n

LinkCurrent(l) == PortValue(Mem, l[3], l[4]) = PortValue(Mem, l[1], l[2])

\* The outlet of a connection is a state outlet holding m_flow <= 0
NoFlow(l) ==
    /\ PortValue(Mem, l[1], l[2]).kind = "state"
    /\ PortValue(Mem, l[1], l[2]).m_flow <= 0

\* C6: when the equation() of a node is about to run, every inlet fed by a node
\* evaluated earlier in this pass already holds that node's outlet value of this
\* pass, and (from the second pass on) an inlet fed by a node evaluated later
\* holds the outlet value that node produced in the previous pass; outlets
\* without flow excepted.  At the end of a pass every inlet is up to date.
C6_GaussSeidel ==
    (outcome = "running" /\ pc \in {"equation", "loop"}) =>
        \A l \in Links :
            (/\ ~NoFlow(l)
             /\ \/ passes >= 1
                \/ pc = "equation" /\ Position(l[1]) < node_idx)
            => LinkCurrent(l)

\* Second pass of the ring of two pumps, second node about to run: its inlet
\* holds the first node's outlet of this pass, the first node's inlet holds
\* the second node's outlet of the previous pass
C6_Witness ==
    /\ outcome = "running"
    /\ pc = "equation"
    /\ passes = 1
    /\ node_idx = 2
    /\ \E l1 \in Links, l2 \in Links :
          /\ l1[1] = simulation_nodes[1] /\ l1[3] = simulation_nodes[2]
          /\ l2[1] = simulation_nodes[2] /\ l2[3] = simulation_nodes[1]
          /\ ~NoFlow(l1) /\ ~NoFlow(l2)
          /\ LinkCurrent(l1) /\ LinkCurrent(l2)
          /\ PortValue(Mem, l1[3], l1[4]).p > PortValue(Mem, l2[3], l2[4]).p
          /\ PortValue(Mem, l2[3], l2[4]).p > UserValues.stateA.p

MemNext == [heap |-> heap', portObj |-> portObj']

\* One propagation step of the current node, seen from one connection
C7_Step ==
    (pc = "propagate") =>
        \A l \in Links :
            (l[1] = CurrentNode) =>
                IF NoFlow(l)
                THEN /\ portObj'[l[3]][l[4]] = portObj[l[3]][l[4]]
                     /\ PortValue(MemNext, l[3], l[4]) = PortValue(Mem, l[3], l[4])
                ELSE (pc' # "except") =>
                        PortValue(MemNext, l[3], l[4]) = PortValue(Mem, l[1], l[2])

\* C7: when a node's outlets are propagated, a state outlet holding
\* m_flow <= 0 is not written to its connected inlets, which keep the very
\* payload object and value they had; every other outlet of the node is
\* written to its connected inlets.
C7_NoFlowShortCircuit == [][C7_Step]_vars

\* The first node of the pass has been propagated: its state outlet has no
\* flow and the connected inlet kept a different payload, while its signal
\* outlet reached the connected inlet
C7_Witness ==
    /\ outcome = "running"
    /\ pc = "equation"
    /\ node_idx = 2
    /\ \E l1 \in Links, l2 \in Links :
          /\ l1[1] = simulation_nodes[1] /\ l2[1] = simulation_nodes[1]
          /\ NoFlow(l1)
          /\ ~LinkCurrent(l1)
          /\ PortValue(Mem, l1[3], l1[4]).m_flow > 0
          /\ ~NoFlow(l2)
          /\ LinkCurrent(l2)
          /\ PortValue(Mem, l2[3], l2[4]).value = UserValues.stateB.p

\* The ports of the constructed units
AllPorts == UNION {{<<u, pn>> : pn \in DOMAIN portObj[u]} : u \in DOMAIN portObj}

\* No payload object is held by two ports, and no port holds an object the
\* user created
NoSharedPayload ==
    /\ \A x \in AllPorts, y \in AllPorts :
          (x # y) => portObj[x[1]][x[2]] # portObj[y[1]][y[2]]
    /\ PortRoots(portObj) \cap UserRoots = {}

\* The ports whose payload value differs after the step
PortsChanged ==
    {x \in AllPorts : PortValue(MemNext, x[1], x[2]) # PortValue(Mem, x[1], x[2])}

\* A write of the user to one payload object changes what at most one port
\* holds, and no port at all when the object is one the user created
C8_WriteStep ==
    (userWrites' # userWrites) =>
        /\ Cardinality(PortsChanged) <= 1
        /\ (\E id \in UserRoots : heap'[id] # heap[id]) => PortsChanged = {}

\* equation() mutates its own outlet payloads in place: no port of another
\* unit changes with it
C8_EquationStep ==
    (pc = "equation") => \A x \in PortsChanged : x[1] = CurrentUnit

\* C8: ports hold independent copies: no two ports ever share a payload
\* object, nor does a port share one with the user; mutating one payload object
\* in place (by the user, or by equation() on its own outlet) never changes
\* what another port holds.
C8_CopyIsolation ==
    []NoSharedPayload /\ [][C8_WriteStep /\ C8_EquationStep]_vars

\* After a converged solve() the user has changed the payload of an outlet in
\* place, and the inlet it was propagated to still holds the value it was given
C8_Witness ==
    /\ SolveEnded
    /\ outcome = "returned"
    /\ result.status = 0
    /\ passes >= 2
    /\ userWrites = 1
    /\ \E l \in Links :
          /\ PortValue(Mem, l[1], l[2]).kind = "state"
          /\ PortValue(Mem, l[3], l[4]).m_flow > 0
          /\ PortValue(Mem, l[3], l[4]).p > UserValues.stateA.p
          /\ PortValue(Mem, l[1], l[2]) = UserWriteValue(PortValue(Mem, l[3], l[4]))

\* C9 as stated: once equation() of a node raised, solve() goes straight to
\* its handler, and it ends by returning an ERRORED result (status 2, success
\* false) that is stored as the last result; no exception reaches the caller.
C9_AsStated ==
    (raisedIn = "equation") =>
        /\ (outcome = "running") => pc = "except"
        /\ SolveEnded =>
              /\ outcome = "returned"
              /\ result.set /\ result.status = 2 /\ ~result.success

\* equation() raised, then get_results() raised in the handler: solve() ended
\* with an exception and stored no result
C9_Witness ==
    /\ SolveEnded
    /\ raisedIn = "equation"
    /\ outcome = "raised"
    /\ ~result.set

\* C10 as stated: whatever fails while solving, solve() ends by returning a
\* SystemResult to its caller, never by an exception.
C10_AsStated ==
    SolveEnded => (outcome = "returned" /\ result.set)

\* check_self() raised in pre_solve(): solve() ended with an exception before
\* the loop was entered
C10_Witness ==
    /\ SolveEnded
    /\ raisedIn = "check_self"
    /\ outcome = "raised"
    /\ iteration_counter = 0

\* The edges of a graph, as pairs
Edges(net) == UNION {{<<a, b>> : b \in SeqRange(net.succ[a])} : a \in DOMAIN net.succ}

OutletLike(t) ==
    t \in {"STATE_OUTLET", "STATE_INLET_OUTLET", "SIGNAL_OUTLET", "SIGNAL_INLET_OUTLET"}

InletLike(t) ==
    t \in {"STATE_INLET", "STATE_INLET_OUTLET", "SIGNAL_INLET", "SIGNAL_INLET_OUTLET"}

StateKind(t) == t \in {"STATE_INLET", "STATE_OUTLET", "STATE_INLET_OUTLET"}

\* port1 is outlet-like, port2 inlet-like, and both carry the same payload kind
Connectable(c) ==
    LET t1 == UnitPortType(c.p1[1], c.p1[2])
        t2 == UnitPortType(c.p2[1], c.p2[2])
    IN OutletLike(t1) /\ InletLike(t2) /\ (StateKind(t1) <=> StateKind(t2))

\* The step is a call of connect / add_model / add_block
ConnectStep == setupCalls' # setupCalls /\ lastCall'.call.op = "connect"

AddStep == setupCalls' # setupCalls /\ lastCall'.call.op \in {"add_model", "add_block"}

Registry == <<models, blocks, ports>>

\* The attributes of the nodes that existed before the step are unchanged
OldNodesKept == \A n \in DOMAIN network.nodes :
                    n \in DOMAIN network'.nodes /\ network'.nodes[n] = network.nodes[n]

C11_AsStated_Step ==
    ConnectStep =>
        LET c == lastCall'.call
        IN /\ ~lastCall'.raised <=> Connectable(c)
           /\ Registry' = Registry
           /\ IF Connectable(c)
              THEN /\ Edges(network') = Edges(network) \cup {<<c.p1[2], c.p2[2]>>}
                   /\ Cardinality(Edges(network')) = Cardinality(Edges(network)) + 1
                   /\ network'.nodes = network.nodes
              ELSE network' = network

\* C11 as stated: connect adds the edge port1 -> port2 iff port1 is outlet-like,
\* port2 inlet-like and the kinds agree; a successful call creates exactly one
\* new edge and changes nothing else; any other call raises and leaves nodes
\* and edges unchanged.
C11_AsStated == [][C11_AsStated_Step]_vars

C11_Step ==
    ConnectStep =>
        LET c == lastCall'.call
            e == <<c.p1[2], c.p2[2]>>
        IN /\ ~lastCall'.raised <=> Connectable(c)
           /\ Registry' = Registry
           /\ IF Connectable(c)
              THEN /\ Edges(network') = Edges(network) \cup {e}
                   /\ Cardinality(Edges(network')) =
                         Cardinality(Edges(network)) + (IF e \in Edges(network) THEN 0 ELSE 1)
                   /\ OldNodesKept
                   /\ DOMAIN network'.nodes = (DOMAIN network.nodes) \cup {e[1], e[2]}
                   /\ \A n \in {e[1], e[2]} \ DOMAIN network.nodes :
                         network'.nodes[n] = NoAttr
              ELSE network' = network

\* C11 amended: connect raises iff the roles or kinds do not fit, and then
\* leaves the graph as it was; otherwise the edge port1 -> port2 is in the
\* graph afterwards: one new edge when it was not there, none when the same
\* connection was made before; an end point that is not a node yet (its owner
\* is not registered) becomes a node without attributes; nothing else changes.
C11_Connect == [][C11_Step]_vars

\* A connect of two registered ports has added its edge; the wrong direction
\* of the same two ports is not an edge
C11_Witness ==
    /\ lastCall = [call |-> Connect("pump1", "b", "pump2", "a"), raised |-> FALSE]
    /\ InSeq("pump1", models) /\ InSeq("pump2", models)
    /\ <<"pump1_port_b", "pump2_port_a">> \in Edges(network)
    /\ <<"pump2_port_a", "pump1_port_b">> \notin Edges(network)
    /\ Cardinality(Edges(network)) = 5

\* The name of the unit of an add_model / add_block call is already registered
\* with the list that call appends to
DuplicateCall(c) ==
    \/ c.op = "add_model" /\ InSeq(UnitName(c.u), models)
    \/ c.op = "add_block" /\ InSeq(UnitName(c.u), blocks)

C12_Step ==
    (AddStep /\ DuplicateCall(lastCall'.call)) =>
        /\ lastCall'.raised
        /\ network' = network
        /\ Registry' = Registry
        /\ UNCHANGED <<heap, portObj>>

\* C12: add_model with a name already registered as a model, and add_block
\* with a name already registered as a block, raise and leave the graph
\* (nodes, attributes, edges) and the models, blocks and ports bookkeeping as
\* they were; the unit registered before stays the node's unit.
C12_DuplicateRejected == [][C12_Step]_vars

\* A second PumpSimple named "pump1" was refused; the first is still the
\* unit of node "pump1", with its ports and containment edges
C12_Witness ==
    /\ lastCall = [call |-> AddModel("pump1_again"), raised |-> TRUE]
    /\ models = <<"pump1">>
    /\ network.nodes["pump1"] = [node_type |-> "MODEL", node_class |-> "pump1"]
    /\ ports["pump1"] = <<"pump1_port_a", "pump1_port_b">>
    /\ Edges(network) = {<<"pump1_port_a", "pump1">>, <<"pump1", "pump1_port_b">>}

C13_AsStated_Step ==
    (AddStep /\ lastCall'.raised) =>
        /\ network' = network
        /\ Registry' = Registry

\* C13 as stated: an add_model / add_block that raises, for a duplicate name
\* or for a port whose role the registration does not accept, leaves no part
\* of the unit behind: the lists, the ports mapping and the graph are what
\* they were before the call.
C13_AsStated == [][C13_AsStated_Step]_vars

\* add_model of the unit with an inlet and an inlet-outlet port raised, and
\* the unit is in the models list, has its ports entry, and its node, both
\* port nodes and the inlet's containment edge are in the graph
C13_Witness ==
    /\ lastCall = [call |-> AddModel("valve"), raised |-> TRUE]
    /\ InSeq("valve", models)
    /\ ports["valve"] = <<"valve_port_a", "valve_port_c">>
    /\ network.nodes["valve"] = [node_type |-> "MODEL", node_class |-> "valve"]
    /\ {"valve_port_a", "valve_port_c"} \subseteq DOMAIN network.nodes
    /\ <<"valve_port_a", "valve">> \in Edges(network)

\* The names of the registered ports
RegisteredPorts == UNION {SeqRange(ports[n]) : n \in DOMAIN ports}

\* No name is registered twice: not as model and block, not as unit and port
NamesUnique ==
    /\ SeqRange(models) \cap SeqRange(blocks) = {}
    /\ (SeqRange(models) \cup SeqRange(blocks)) \cap RegisteredPorts = {}

\* An add_model / add_block whose name is already the name of a registered
\* model, block or port raises and leaves the node of that name as it was
C14_Step ==
    AddStep =>
        LET n == UnitName(lastCall'.call.u)
        IN (n \in SeqRange(models) \cup SeqRange(blocks) \cup RegisteredPorts) =>
              /\ lastCall'.raised
              /\ network'.nodes[n] = network.nodes[n]

\* C14 as stated: node names stay globally unique over models, blocks and
\* ports, and a registration under a name in use is rejected without
\* overwriting the node of that name.
C14_AsStated == []NamesUnique /\ [][C14_Step]_vars

\* A Constant named "pump1" was accepted by add_block after the model "pump1":
\* the name is in both lists and the node "pump1" is now the block
C14_Witness ==
    /\ lastCall = [call |-> AddBlock("const_pump1"), raised |-> FALSE]
    /\ models = <<"pump1">>
    /\ blocks = <<"pump1">>
    /\ network.nodes["pump1"] = [node_type |-> "BLOCK", node_class |-> "const_pump1"]
    /\ ports["pump1"] = <<"pump1_port_d">>

\* The ports of a unit by role
InletPortsOf(u) ==
    {pn \in SeqRange(UnitPortSeq(u)) : UnitPortType(u, pn) \in {"STATE_INLET", "SIGNAL_INLET"}}

OutletPortsOf(u) ==
    {pn \in SeqRange(UnitPortSeq(u)) : UnitPortType(u, pn) \in {"STATE_OUTLET", "SIGNAL_OUTLET"}}

\* The containment edges of a unit: inlet -> owner, owner -> outlet
ContainmentEdges(u) ==
    {<<pn, UnitName(u)>> : pn \in InletPortsOf(u)}
    \cup {<<UnitName(u), pn>> : pn \in OutletPortsOf(u)}

\* What holds of each port of the unit after a successful registration
PortsContained(u) ==
    \A pn \in SeqRange(UnitPortSeq(u)) :
        /\ pn \in DOMAIN network'.nodes
        /\ network'.nodes[pn].node_type = "PORT"
        /\ Cardinality({<<pn, UnitName(u)>>, <<UnitName(u), pn>>} \cap Edges(network')) = 1
        /\ (pn \in InletPortsOf(u)) =>
              /\ <<pn, UnitName(u)>> \in Edges(network')
              /\ network'.succ[pn] = <<UnitName(u)>>
        /\ (pn \in OutletPortsOf(u)) => <<UnitName(u), pn>> \in Edges(network')

C15_AsStated_Step ==
    (AddStep /\ ~lastCall'.raised) =>
        LET u == lastCall'.call.u
        IN /\ PortsContained(u)
           /\ SeqRange(network'.succ[UnitName(u)]) = OutletPortsOf(u)

\* C15 as stated: after a successful add_model / add_block of unit O every
\* port of O is a node with exactly one containment edge, inlet -> O or
\* O -> outlet; the successors of O are exactly O's outlet ports and the only
\* successor of an inlet port is O.
C15_AsStated == [][C15_AsStated_Step]_vars

\* A Constant named "pump1" was registered after the model "pump1": the
\* successors of node "pump1" are the pump's outlet and the block's outlet
C15_Witness ==
    /\ lastCall = [call |-> AddBlock("const_pump1"), raised |-> FALSE]
    /\ models = <<"pump1">>
    /\ blocks = <<"pump1">>
    /\ network.succ["pump1"] = <<"pump1_port_b", "pump1_port_d">>
    /\ OutletPortsOf("const_pump1") = {"pump1_port_d"}

InletOutletPortsOf(u) ==
    {pn \in SeqRange(UnitPortSeq(u)) :
        UnitPortType(u, pn) \in {"STATE_INLET_OUTLET", "SIGNAL_INLET_OUTLET"}}

C16_AsStated_Step ==
    (/\ AddStep
     /\ InletOutletPortsOf(lastCall'.call.u) # {}
     /\ ~DuplicateCall(lastCall'.call)) =>
        /\ ~lastCall'.raised
        /\ \A pn \in InletOutletPortsOf(lastCall'.call.u) :
              /\ <<pn, UnitName(lastCall'.call.u)>> \in Edges(network')
              /\ <<UnitName(lastCall'.call.u), pn>> \in Edges(network')

\* C16 as stated: a unit that owns an inlet-outlet port is accepted by
\* add_model / add_block, and that port gets both containment edges,
\* port -> owner and owner -> port.
C16_AsStated == [][C16_AsStated_Step]_vars

\* add_model of the unit with the inlet-outlet port raised; that port has
\* neither containment edge and the unit has no successor
C16_Witness ==
    /\ lastCall.call = AddModel("valve")
    /\ lastCall.raised
    /\ UnitPortType("valve", "valve_port_c") = "STATE_INLET_OUTLET"
    /\ <<"valve_port_c", "valve">> \notin Edges(network)
    /\ <<"valve", "valve_port_c">> \notin Edges(network)
    /\ network.succ["valve"] = << >>

\* A step of solve(): from its call to its return or to the exception that
\* leaves it
SolveStep == pc # "idle" \/ pc' # "idle" \/ solves' # solves

C17_Step ==
    SolveStep =>
        /\ DOMAIN network'.nodes = DOMAIN network.nodes
        /\ network'.nodes = network.nodes
        /\ Edges(network') = Edges(network)
        /\ network'.succ = network.succ
        /\ models' = models
        /\ blocks' = blocks
        /\ ports' = ports
        /\ cfg' = cfg
        /\ simulation_nodes' \in {simulation_nodes, models \o blocks}

\* C17: no step of solve(), whatever its outcome, changes the nodes, their
\* attributes, the edges, the models and blocks lists, the ports mapping or
\* the configuration; the evaluation order is the only list it assigns, to
\* models followed by blocks.
C17_TopologyFrozen == [][C17_Step]_vars

\* A solve() of a connected system ran into the cap after two or more passes:
\* payloads, counter and result have changed, the connections are in the graph
C17_Witness ==
    /\ SolveEnded
    /\ outcome = "returned"
    /\ result.status = 1
    /\ passes >= 2
    /\ iteration_counter >= 3
    /\ \E l \in Links : PortValue(Mem, l[3], l[4]).p > UserValues.stateA.p
    /\ \E l \in Links : <<l[2], l[4]>> \in Edges(network)

\* The deltas a registered node is tested on, each with its tolerance: a model
\* on energy, momentum, mass and signal, a block on signal only
DeltasOf(n) ==
    LET u == network.nodes[n].node_class
        sig == <<unit_stop_criterion_signal(Mem, last, u), cfg.stop_criterion_signal>>
    IN IF InSeq(n, models)
       THEN {<<unit_stop_criterion_energy(Mem, last, u), cfg.stop_criterion_energy>>,
             <<unit_stop_criterion_momentum(Mem, last, u), cfg.stop_criterion_momentum>>,
             <<unit_stop_criterion_mass(Mem, last, u), cfg.stop_criterion_mass>>,
             sig}
       ELSE {sig}

AllDeltas == UNION {DeltasOf(n) : n \in SeqRange(RegistrationOrder)}

SomeDeltaExceeds == \E d \in AllDeltas : d[1] > d[2] \/ -d[1] > d[2]

\* stop_criterion() is called with 1 <= iteration_counter < max_iteration_counter
\* and returns
C18_Step ==
    (/\ pc = "loop"
     /\ iteration_counter >= 1
     /\ iteration_counter < cfg.max_iteration_counter
     /\ pc' \in {"equation", "post"}) =>
        /\ (pc' = "equation") <=> SomeDeltaExceeds
        /\ (pc' = "post") <=> ~SomeDeltaExceeds
        /\ iteration_counter' = iteration_counter + 1

\* C18: called with 1 <= iteration_counter < max_iteration_counter,
\* stop_criterion() returns true (the next pass starts) iff the absolute value
\* of some delta of some registered node is strictly greater than its
\* tolerance, and false (the loop ends) iff every delta is within its
\* tolerance, a delta equal to the tolerance included.
C18_StrictTolerance == [][C18_Step]_vars

\* The loop ended after a pass that left the adder's signal delta exactly at
\* the signal tolerance
C18_Witness ==
    /\ outcome = "running"
    /\ pc = "post"
    /\ passes = 1
    /\ iteration_counter = 2
    /\ cfg.max_iteration_counter >= 2
    /\ <<cfg.stop_criterion_signal, cfg.stop_criterion_signal>> \in AllDeltas
    /\ ~SomeDeltaExceeds

\* The unit's equation() is called again, its inlets unchanged since its
\* previous call
SecondCall == Len(evals) >= 1 /\ Len(evals') = Len(evals) + 1

OutletsOf(u) ==
    {pn \in SeqRange(UnitPortSeq(u)) : UnitPortType(u, pn) \in {"STATE_OUTLET", "SIGNAL_OUTLET"}}

\* All four delta accessors of the unit return zero
DeltasZero(mem, lst, u) ==
    /\ unit_stop_criterion_energy(mem, lst, u) = 0
    /\ unit_stop_criterion_momentum(mem, lst, u) = 0
    /\ unit_stop_criterion_mass(mem, lst, u) = 0
    /\ unit_stop_criterion_signal(mem, lst, u) = 0

C19_AsStated_Step ==
    SecondCall =>
        LET u == simulation_nodes[1]
        IN /\ \A pn \in OutletsOf(u) : PortValue(MemNext, u, pn) = PortValue(Mem, u, pn)
           /\ DeltasZero(MemNext, last', u)

\* C19 as stated: for every kind of unit, a second equation() call with
\* unchanged inlet payloads leaves the outlet payloads as the first call left
\* them, and all delta accessors return zero after it.
C19_AsStated == [][C19_AsStated_Step]_vars

\* The sink's inlet was assigned a state other than its state0 and its
\* equation() was called twice: its energy delta is not zero
C19_Witness ==
    /\ simulation_nodes = <<"sink">>
    /\ userWrites = 1
    /\ evals = <<"sink", "sink">>
    /\ unit_stop_criterion_energy(Mem, last, "sink") # 0

\* The first solve() on the system, nothing written by the user and no
\* exception raised so far
FreshRun == solves = 1 /\ userWrites = 0 /\ faults = 0

\* The count the first solve() ends with: the upstream pump registered first
\* settles in one pass less than the downstream pump registered first
ChainNit == IF models[1] = "pump1" THEN 3 ELSE 4

C20_Outcome ==
    /\ (FreshRun /\ outcome = "running") =>
          /\ iteration_counter <= ChainNit
          /\ passes <= ChainNit - 1
    /\ (FreshRun /\ SolveEnded) =>
          /\ outcome = "returned"
          /\ result.success
          /\ result.status = 0
          /\ result.nit = ChainNit
          /\ result.nit <= 5
          /\ passes = ChainNit - 1

\* C20: on the chain of two pumps with flow, default tolerances and cap, the
\* first solve() comes to an end, and when nothing raised it ends CONVERGED
\* with an iteration count fixed by the registration order (3 with the
\* upstream pump first, 4 with the downstream pump first), at most 5.
C20_ChainConverges ==
    /\ []C20_Outcome
    /\ (solves = 1 /\ pc = "loop") ~> SolveEnded

\* The chain registered downstream-first has converged in its first solve()
C20_Witness ==
    /\ FreshRun
    /\ SolveEnded
    /\ models = <<"pump2", "pump1">>
    /\ cfg.max_iteration_counter = MaxIterationCounterDefault
    /\ result.status = 0
    /\ result.nit = 4
    /\ PortValue(Mem, "pump2", "pump2_port_b").p = UserValues.stateA.p + PumpDp("pump1") + PumpDp("pump2")

\* A pump's outlet pressure is its inlet pressure plus its dp
PumpBalanced(u) ==
    PortValue(Mem, u, PortNames[u].b).p = PortValue(Mem, u, PortNames[u].a).p + PumpDp(u)

\* The end-to-end values of the chain built on stateA
ChainValues ==
    /\ PumpBalanced("pump1")
    /\ PumpBalanced("pump2")
    /\ PortValue(Mem, "pump2", "pump2_port_b").p =
          UserValues.stateA.p + PumpDp("pump1") + PumpDp("pump2")
    /\ PortValue(Mem, "pump2", "pump2_port_b").m_flow = UserValues.stateA.m_flow

ResultValuesKept ==
    \A id \in ResultRoots(result) : id \in DOMAIN heap' /\ heap'[id] = heap[id]

C22_AsStated_Step == (result.set /\ result' = result) => ResultValuesKept

\* C22 as stated: the ModelResult / BlockResult objects of a SystemResult keep
\* the payload values they had when the result was produced: no later
\* equation() call, propagation, solve() or direct write to a port's payload
\* changes a value seen through that result.
C22_AsStated == [][C22_AsStated_Step]_vars

\* After the first solve() converged on a chain with flow, the user set m_flow
\* of the first pump's outlet payload to 0, and the result of that solve()
\* now reports m_flow 0 for that outlet
C22_Witness ==
    /\ SolveEnded /\ solves = 1 /\ outcome = "returned"
    /\ result.status = 0
    /\ passes >= 2
    /\ userWrites = 1
    /\ "pump1" \in DOMAIN result.models
    /\ models[1] = "pump1"
    /\ PortValue(Mem, "pump1", "pump1_port_a").m_flow > 0
    /\ heap[result.models["pump1"]["pump1_port_b"]].m_flow = 0
    /\ \E l \in Links : l[2] = "pump1_port_b" /\ PortValue(Mem, l[3], l[4]).m_flow > 0

\* The step is the pre_solve() of a solve() call that went on into the loop
PreSolveStep == pc = "idle" /\ pc' = "loop"

\* Some check_self() of the last pre_solve() returned False
NegativeSelfCheck == \E i \in 1..Len(selfChecked) : ~selfChecked[i][2]

C23_Step ==
    PreSolveStep =>
        /\ [i \in 1..Len(selfChecked') |-> selfChecked'[i][1]] = RegistrationOrder
        /\ outcome' = "running"
        /\ raisedIn' = "none"
        /\ simulation_nodes' = RegistrationOrder
        /\ UNCHANGED <<topology, iteration_counter, result, heap, portObj, last>>

\* What the first solve() on the script's system ends with when no self-check
\* plays a part: the loop run from the state the constructors left
CheckedExpected ==
    LET c == construct_all(UserMem, << >>, CheckedScript.units, 1)
    IN run_loop(c.mem, c.last, 0, network, cfg, RegistrationOrder)

C23_SameOutcome ==
    (FreshRun /\ SolveEnded) =>
        LET e == CheckedExpected
        IN /\ outcome = "returned"
           /\ iteration_counter = e.counter
           /\ result.nit = e.counter
           /\ result.status = (IF e.counter > cfg.max_iteration_counter THEN 1 ELSE 0)
           /\ last = e.last
           /\ \A x \in AllPorts :
                 PortValue(Mem, x[1], x[2]) = PortValue(e.mem, x[1], x[2])
           /\ \A n \in DOMAIN result.models : \A pn \in DOMAIN result.models[n] :
                 heap[result.models[n][pn]] = PortValue(e.mem, n, pn)
           /\ \A n \in DOMAIN result.blocks : \A pn \in DOMAIN result.blocks[n] :
                 heap[result.blocks[n][pn]] = PortValue(e.mem, n, pn)

\* C23: a check_self() that returns False is not fatal: pre_solve() still
\* calls check_self() of every registered model and block, raises nothing and
\* changes no state, and the solve loop that follows ends with the outcome,
\* the count and the port values it has when every self-check returns True.
C23_NegativeCheckNonFatal == []C23_SameOutcome /\ [][C23_Step]_vars

\* check_self() of the first model returned False, the model and the block
\* after it were checked too, and the solve() converged in three passes
C23_Witness ==
    /\ FreshRun /\ SolveEnded
    /\ selfChecked = << <<"pump_u", FALSE>>, <<"pump1", TRUE>>, <<"const_u", TRUE>> >>
    /\ outcome = "returned"
    /\ result.status = 0
    /\ passes = 3
    /\ PortValue(Mem, "pump_u", "pump_u_port_b").p =
          UserValues.stateA.p + PumpDp("pump1") + PumpDp("pump_u")

\* Every port holds a payload of the kind of its class: a state port a State,
\* a signal port a Signal
KindsKept ==
    \A x \in AllPorts :
        (PortValue(Mem, x[1], x[2]).kind = "state") <=> IsStatePortType(UnitPortType(x[1], x[2]))

\* The ports that hold another payload object after the step
PortsRebound == {x \in AllPorts : portObj'[x[1]][x[2]] # portObj[x[1]][x[2]]}

\* A propagation step gives a new payload only to inlets connected to an
\* outlet of the current node, of that outlet's kind and with its value
C24_Step ==
    (pc = "propagate") =>
        \A x \in PortsRebound :
            \E l \in Links :
                /\ l[1] = CurrentNode /\ l[3] = x[1] /\ l[4] = x[2]
                /\ OutletLike(UnitPortType(l[1], l[2]))
                /\ InletLike(UnitPortType(x[1], x[2]))
                /\ StateKind(UnitPortType(l[1], l[2])) <=> StateKind(UnitPortType(x[1], x[2]))
                /\ PortValue(MemNext, x[1], x[2]).kind = PortValue(Mem, l[1], l[2]).kind
                /\ PortValue(MemNext, x[1], x[2]).kind = PortValue(Mem, x[1], x[2]).kind

\* C24: in every state reached by constructing ports, registering units,
\* connecting them and solving, a state port holds a State and a signal port a
\* Signal, as at its construction; propagation writes the payload of a state
\* outlet only into state inlets and that of a signal outlet only into signal
\* inlets.
C24_PayloadKindFixed == []KindsKept /\ [][C24_Step]_vars

\* A pass is done on the system whose sensor feeds a pump and an adder: the
\* pump's inlet holds the sensor's state, the adder's inlet the sensor's signal
C24_Witness ==
    /\ outcome = "running"
    /\ pc = "loop"
    /\ passes = 1
    /\ models = <<"sensor", "pump2">>
    /\ PortValue(Mem, "pump2", "pump2_port_a").kind = "state"
    /\ PortValue(Mem, "pump2", "pump2_port_a") = PortValue(Mem, "sensor", "sensor_port_b")
    /\ PortValue(Mem, "add", "add_port_c1").kind = "signal"
    /\ PortValue(Mem, "add", "add_port_c1").value = UserValues.stateA.p

\* One more full pass from the current state
OneMorePass == run_pass(Mem, last, network, simulation_nodes, 1)

\* Every inlet connected to an outlet with flow holds that outlet's value, and
\* one more pass would leave every delta within its tolerance
FixedPoint ==
    /\ \A l \in Links : ~NoFlow(l) => LinkCurrent(l)
    /\ ~any_node_exceeds(network, OneMorePass.mem, OneMorePass.last, cfg, simulation_nodes)

\* C25 as stated: whenever solve() returns CONVERGED, every inlet connected to
\* a signal outlet or to a state outlet with m_flow > 0 holds that outlet's
\* current value, and one more full pass (equation() of every node plus
\* propagation) would change no tracked value by more than its tolerance.
\* (Read for a first solve(), nothing written by the user before it.)
C25_AsStated ==
    (SolveEnded /\ solves = 1 /\ userWrites = 0 /\ outcome = "returned"
        /\ result.status = 0) => FixedPoint

\* The adder registered before the constant that feeds it: the first solve()
\* returned CONVERGED after one pass, the adder's output is still 0 while its
\* inputs now add up to the constant
C25_Witness ==
    /\ FreshRun /\ SolveEnded
    /\ outcome = "returned"
    /\ result.status = 0
    /\ result.nit = 2
    /\ passes = 1
    /\ blocks = <<"add", "const">>
    /\ PortValue(Mem, "add", "add_port_d").value = 0
    /\ PortValue(Mem, "add", "add_port_c1").value
          + PortValue(Mem, "add", "add_port_c2").value = ConstantValue("const")
    /\ ConstantValue("const") > cfg.stop_criterion_signal

\* C26 as stated: solve() returns NOT-CONVERGED only if the cap was reached
\* with some delta beyond its tolerance: when every delta of every node is
\* within its tolerance after the last pass executed, the max-th pass
\* included, the outcome is CONVERGED.  (Read for a first solve(), nothing
\* written by the user before it.)
C26_AsStated ==
    (SolveEnded /\ solves = 1 /\ userWrites = 0 /\ outcome = "returned"
        /\ raisedIn = "none" /\ passes >= 1 /\ ~SomeDeltaExceeds) => result.status = 0

\* The chain registered upstream-first, cap 2: the second pass changed
\* nothing, the chain is at its fixed point with the end-to-end pressure, and
\* solve() returned NOT-CONVERGED
C26_Witness ==
    /\ FreshRun /\ SolveEnded
    /\ outcome = "returned"
    /\ models = <<"pump1", "pump2">>
    /\ cfg.max_iteration_counter = 2
    /\ passes = 2
    /\ \A d \in AllDeltas : d[1] = 0
    /\ FixedPoint
    /\ PortValue(Mem, "pump2", "pump2_port_b").p =
          UserValues.stateA.p + PumpDp("pump1") + PumpDp("pump2")
    /\ result.status = 1
    /\ result.nit = 3

\* The sink's inlet holds a state whose enthalpy differs from that of the
\* sink's state0 by more than the energy tolerance
SinkInletMoved ==
    Abs(hmass(PortValue(Mem, "sink", "sink_port_a")) - hmass(UserValues.stateA))
        > cfg.stop_criterion_energy

\* C27 as stated: on the chain source -> pump -> sink with flow, where the
\* state delivered to the sink differs from the sink's state0 by more than
\* the energy tolerance, the sink's energy and mass deltas are zero again once
\* its inlet no longer changes between passes (from the second pass on), and
\* the first solve() returns CONVERGED instead of running to the cap.
C27_AsStated ==
    /\ (FreshRun /\ outcome = "running" /\ pc = "loop" /\ passes >= 2) =>
          /\ unit_stop_criterion_energy(Mem, last, "sink") = 0
          /\ unit_stop_criterion_mass(Mem, last, "sink") = 0
    /\ (FreshRun /\ SolveEnded) => (outcome = "returned" /\ result.status = 0)

\* The first solve() ran to the largest cap and returned NOT-CONVERGED: after
\* every pass some delta exceeded, the pump's deltas are zero, the sink's
\* energy delta is still the pump's enthalpy rise
C27_Witness ==
    /\ FreshRun /\ SolveEnded
    /\ outcome = "returned"
    /\ result.status = 1
    /\ cfg.max_iteration_counter = MaxM + 2
    /\ passes = cfg.max_iteration_counter
    /\ alwaysExceeded
    /\ SinkInletMoved
    /\ DeltasZero(Mem, last, "pump1")
    /\ DeltasZero(Mem, last, "source")
    /\ unit_stop_criterion_energy(Mem, last, "sink") = PumpDp("pump1")
    /\ PortValue(Mem, "sink", "sink_port_a") = PortValue(Mem, "pump1", "pump1_port_b")

\* The most passes a first solve() may run under its cap
PassLimit == IF cfg.max_iteration_counter = 0 THEN 1 ELSE cfg.max_iteration_counter

\* C28 as stated: for every max_iteration_counter of 0..65535 the loop of a
\* first solve() ends after finitely many passes (at most the cap, one for a
\* cap of 0); the counter goes up by exactly 1 with every stop_criterion()
\* call and never wraps, so it equals the number of calls made, and it never
\* exceeds max_iteration_counter + 1.
C28_AsStated ==
    (solves = 1) =>
        /\ passes <= PassLimit
        /\ iteration_counter <= cfg.max_iteration_counter + 1
        /\ (outcome = "running" /\ pc = "loop") => iteration_counter = passes
        /\ (outcome = "running" /\ pc \in {"equation", "propagate"}) =>
              iteration_counter = passes + 1

\* With the cap at 65535 the first solve() is in its pass number 2^16 + 1:
\* the counter wrapped to 0 and stands at 1 again
C28_Witness ==
    /\ solves = 1
    /\ outcome = "running"
    /\ pc = "equation"
    /\ cfg.max_iteration_counter = Uint16Modulus - 1
    /\ passes = Uint16Modulus
    /\ iteration_counter = 1
    /\ alwaysExceeded

\* equation() of a node raised in the first solve(), nothing else went wrong,
\* and solve() has returned
EquationFailed ==
    /\ SolveEnded /\ solves = 1 /\ userWrites = 0 /\ faults = 1
    /\ raisedIn = "equation"
    /\ outcome = "returned"

\* The script the chain was built by, and the state its constructors left
ChainScript == CHOOSE sc \in ChainScripts : sc.calls[1].u = models[1]

ChainConstructed == construct_all(UserMem, << >>, ChainScript.units, 1)

\* The passes completed before the failing one, and then the nodes evaluated
\* and propagated in the failing pass before the node that raised
BeforeFailingPass ==
    run_passes(ChainConstructed.mem, ChainConstructed.last, network,
               simulation_nodes, passes)

BeforeFailingNode ==
    run_pass(BeforeFailingPass.mem, BeforeFailingPass.last, network,
             SubSeq(simulation_nodes, 1, Len(evals) - 1), 1)

\* C29: when equation() of the k-th node raises in pass i of a first solve(),
\* nothing is rolled back: the ERRORED result has nit = i; the ports hold what
\* i - 1 full passes and then the first k - 1 nodes of pass i, each with its
\* propagation, left in them, so the outlets of the nodes from the k-th on
\* hold their values of pass i - 1; and the models / blocks mappings of the
\* result report exactly these port values.
C29_PartialResults ==
    EquationFailed =>
        /\ result.set /\ result.status = 2 /\ ~result.success
        /\ result.nit = passes + 1
        /\ \A x \in AllPorts :
              PortValue(Mem, x[1], x[2]) = PortValue(BeforeFailingNode.mem, x[1], x[2])
        /\ \A j \in Len(evals)..Len(simulation_nodes) :
              \A pn \in OutletsOf(simulation_nodes[j]) :
                 PortValue(Mem, simulation_nodes[j], pn)
                    = PortValue(BeforeFailingPass.mem, simulation_nodes[j], pn)
        /\ \A l \in Links :
              (Position(l[1]) < Len(evals) /\ ~NoFlow(l)) => LinkCurrent(l)
        /\ DOMAIN result.models = SeqRange(models)
        /\ DOMAIN result.blocks = SeqRange(blocks)
        /\ \A n \in DOMAIN result.models : \A pn \in SeqRange(UnitPortSeq(n)) :
              heap[result.models[n][pn]] = PortValue(Mem, n, pn)

\* On the chain registered downstream-first, equation() of the second node
\* raised in pass 2: the first node's outlet is its value of pass 2, the
\* second node's outlet its value of pass 1, and the result has nit = 2
C29_Witness ==
    /\ EquationFailed
    /\ models = <<"pump2", "pump1">>
    /\ passes = 1
    /\ evals = <<"pump2", "pump1">>
    /\ result.nit = 2
    /\ result.status = 2
    /\ heap[result.models["pump2"]["pump2_port_b"]].p =
          UserValues.stateA.p + PumpDp("pump1") + PumpDp("pump2")
    /\ heap[result.models["pump1"]["pump1_port_b"]].p =
          UserValues.stateA.p + PumpDp("pump1")

\* ---------------------------------------------------------------- C30
\* A listed unit is a graph node of its kind that carries its unit object
UnitsAreNodes(names, kind) ==
    \A i \in 1..Len(names) :
        /\ names[i] \in DOMAIN network.nodes
        /\ network.nodes[names[i]].node_type = kind
        /\ network.nodes[names[i]].node_class # "none"
        /\ UnitName(network.nodes[names[i]].node_class) = names[i]

\* A listed port is a PORT node joined to its owner by a containment edge
PortsAreNodes ==
    \A o \in DOMAIN ports : \A p \in SeqRange(ports[o]) :
        /\ p \in DOMAIN network.nodes
        /\ network.nodes[p].node_type = "PORT"
        /\ <<p, o>> \in Edges(network) \/ <<o, p>> \in Edges(network)

\* The edge joins a listed port and its owner
IsContainment(e) ==
    \E o \in DOMAIN ports :
        \/ e[1] = o /\ e[2] \in SeqRange(ports[o])
        \/ e[2] = o /\ e[1] \in SeqRange(ports[o])

\* Every edge that is not a containment edge joins two registered ports
LinksJoinRegisteredPorts ==
    \A e \in Edges(network) :
        IsContainment(e) \/ (e[1] \in RegisteredPorts /\ e[2] \in RegisteredPorts)

\* C30: after any sequence of add_model, add_block, connect, clear and freeze
\* calls, those that raise included, every name in the models and blocks
\* lists is a graph node of that kind carrying its unit object, every port
\* listed for an owner is a PORT node with its containment edge, and every
\* other edge joins two ports of registered units.
C30_AsStated ==
    /\ UnitsAreNodes(models, "MODEL")
    /\ UnitsAreNodes(blocks, "BLOCK")
    /\ PortsAreNodes
    /\ LinksJoinRegisteredPorts

\* clear() has returned on a system with a registered model: the model is
\* still listed, with its ports, and the graph has no node
C30_Witness ==
    /\ lastCall.call.op = "clear"
    /\ ~lastCall.raised
    /\ Len(models) > 0
    /\ ports[models[1]] # << >>
    /\ DOMAIN network.nodes = {}

====
